---- MODULE Spec2Model ----
(***************************************************************************)
(* A model of pcollections: the persistent list / set / dict types, their  *)
(* transient twins and the lazy cell, as state machines over the fields    *)
(* the Python classes keep.                                                *)
(*                                                                         *)
(* A PHAMT / THAMT (package phamt) is modelled by its contents: a function *)
(* from integer keys to values.  A THAMT made from a PHAMT starts with the *)
(* same contents and is changed in place without changing the PHAMT, and   *)
(* THAMT.persistent() returns the contents at the time of the call.        *)
(* Persistent objects live in a heap (id -> fields) so that "is" (object   *)
(* identity) and "==" (equal contents) are different questions.            *)
(* Elements, keys and values are small integers, for which CPython's "is"  *)
(* and "==" agree and hash(i) = i (except hash(-1) = -2).                  *)
(***************************************************************************)
EXTENDS Integers, Sequences, FiniteSets, TLC

VARIABLES
    mode,   \* which container family this behaviour exercises
    scen,   \* what the caller does besides editing: "plain", "hold" (keeps
            \* references to values published earlier) or "iter" (iterates t)
    univ,   \* the elements / keys the behaviour draws from
    heap,   \* the persistent objects: id -> fields
    p,      \* id of the persistent value the edits are applied to
    t,      \* the transient (its fields; it is changed in place)
    ref,    \* the reference for t (a host-language list / ordered set / dict)
    pref,   \* the reference for p (it differs from ref once a persistent edit failed)
    held,   \* persistent values published earlier, with what was observed then
    last,   \* what the last operation returned or raised, per implementation
    src,    \* id of the persistent value t came from by transient(), 0 once t was mutated
    it,     \* an iterator over the transient
    cells,  \* the lazy cells: id -> fields, and how often the thunk was invoked
    lock,   \* the RLock of each lazy cell: owner thread and depth
    thr,    \* the threads invoking a lazy cell: where each is in lazy.__call__
    count,  \* counter.count, which the thunks add to
    ll,     \* the lazy list that is read
    rd      \* what the last read of the lazy list did

vars == <<mode, scen, univ, heap, p, t, ref, pref, held, last, src, it,
          cells, lock, thr, count, ll, rd>>
contvars == <<scen, univ, heap, p, t, ref, pref, held, last, src, it>>
lazyvars == <<cells, lock, thr, count, ll, rd>>

\* no lazy cell is involved
NoLazy ==
    /\ cells = <<>> /\ lock = <<>> /\ thr = <<>> /\ count = 0
    /\ ll = [phamt |-> <<>>, start |-> 0] /\ rd = [op |-> "none"]

(* ------------------------------ bounds -------------------------------- *)
MaxLen == 4      \* longest list, when no earlier value is kept
MaxStart == 2    \* the origin of a list stays within MaxStart of 0
MaxTop == 4      \* slots a set hands out, when no earlier value is kept
DictTop == 3     \* slots a dict hands out, when no earlier value is kept
HoldLen == 2     \* longest list, when earlier values are kept
HoldStart == 1   \* the same for the origin
HoldTop == 2     \* slots a set / dict hands out, when earlier values are kept
IterTop == 2     \* slots a set / dict hands out, when the transient is iterated
NumThreads == 2  \* threads invoking one lazy cell
MaxInvoke == 2   \* invocations of the cell by each thread
MaxCells == 2    \* longest lazy list
StackLimit == 3  \* nested calls of a cell the interpreter's stack has room for
MaxDeletes == 3  \* deletions made from the list of ten
MaxSlice == 3    \* slice endpoints range over -MaxSlice..MaxSlice, steps over -2..2
Wide == 1000     \* the integer q * (2^61 - 1) + r is written q * Wide + r; small ones are below Wide

Vals == {1, 2}
Elems == {0, 1, 2}        \* elements / keys with pairwise distinct hashes
CollElems == {-1, -2, 0}  \* hash(-1) = hash(-2)
FewElems == {0, 1}
ChainElems == {0, Wide, 2 * Wide, 1}  \* hash(0) = hash(2^61 - 1) = hash(2^62 - 2)
TenLen == 10
Incs == {1, 10}           \* what the counter thunks add: lazy(counter, 1), lazy(counter, 10)

TopCap ==
    IF scen = "hold" THEN HoldTop
    ELSE IF scen = "iter" THEN IterTop
    ELSE IF mode = "dict" THEN DictTop
    ELSE MaxTop

\* The origin of a list drifts without bound (prepend, then pop the last); the
\* edits explored keep it near 0.
LenCap == IF scen = "hold" THEN HoldLen ELSE MaxLen
InRange(st) == LET c == IF scen = "hold" THEN HoldStart ELSE MaxStart IN -c <= st /\ st <= c

(* ------------------------- object identities -------------------------- *)
NoneId == 0
EmptyId == 1

FreshId(h) ==
    CHOOSE i \in 2..(Cardinality(DOMAIN h) + 2) :
        i \notin DOMAIN h /\ \A j \in 2..(i - 1) : j \in DOMAIN h

\* Objects no variable refers to any more are collected.
Collect(h, roots) == [i \in (DOMAIN h \cap (roots \cup {EmptyId})) |-> h[i]]

HeldIds(hs) == {hs[i].id : i \in DOMAIN hs}

(* ------------------------------- HAMT --------------------------------- *)
EmptyHamt == [k \in {} |-> 0]
HLen(m) == Cardinality(DOMAIN m)
HAssoc(m, k, v) == [x \in (DOMAIN m \cup {k}) |-> IF x = k THEN v ELSE m[x]]
HDissoc(m, k) == [x \in (DOMAIN m \ {k}) |-> m[x]]

\* Iteration order of a HAMT: keys as unsigned integers, so the non-negative
\* keys ascending and then the negative keys ascending.
KeyBefore(a, b) == IF (a >= 0) = (b >= 0) THEN a < b ELSE a >= 0

RECURSIVE KeysInOrder(_)
KeysInOrder(S) ==
    IF S = {} THEN <<>>
    ELSE LET k == CHOOSE x \in S : \A y \in S \ {x} : KeyBefore(x, y)
         IN <<k>> \o KeysInOrder(S \ {k})

HValues(m) == LET ks == KeysInOrder(DOMAIN m) IN [i \in 1..Len(ks) |-> m[ks[i]]]

(* ------------------------------ plist --------------------------------- *)
EmptyPlist == [phamt |-> EmptyHamt, start |-> 0]

Ok(h, id) == [heap |-> h, id |-> id, exc |-> "", val |-> 0]
Raise(h, id, e) == [heap |-> h, id |-> id, exc |-> e, val |-> 0]

plist_new(h, phamt, start) ==
    LET id == FreshId(h)
    IN Ok(h @@ (id :> [phamt |-> phamt, start |-> start]), id)

\* for ii in range(lo, hi): dst[ii + off] = from[ii]
RECURSIVE CopyFrom(_, _, _, _, _)
CopyFrom(dst, from, lo, hi, off) ==
    IF lo >= hi THEN dst
    ELSE CopyFrom(HAssoc(dst, lo + off, from[lo]), from, lo + 1, hi, off)

plist_set(h, self, index, obj) ==
    LET start == h[self].start
        phamt == h[self].phamt
        n == HLen(phamt)
    IN IF index < -n \/ index >= n THEN Raise(h, self, "IndexError")
       ELSE LET k == (IF index < 0 THEN index + n ELSE index) + start
            IN IF phamt[k] = obj THEN Ok(h, self)
               ELSE plist_new(h, HAssoc(phamt, k, obj), start)

\* delete that closes every gap from the right and never moves the origin
plist_delete_from_right(h, self, index0) ==
    LET phamt == h[self].phamt
        n == HLen(phamt)
        st == h[self].start
    IN IF n = 0 \/ index0 >= n \/ index0 < -n THEN Raise(h, self, "IndexError")
       ELSE LET index == IF index0 < 0 THEN index0 + n ELSE index0
            IN IF index = 0
               THEN IF n = 1 THEN Ok(h, EmptyId)
                    ELSE plist_new(h, HDissoc(phamt, st), st + 1)
               ELSE plist_new(h,
                        HDissoc(CopyFrom(phamt, phamt, index + st + 1, n + st, -1),
                                n + st - 1),
                        st)

\* delete whose range check lets the index n through
plist_delete_upto_n(h, self, index0) ==
    LET phamt == h[self].phamt
        n == HLen(phamt)
        st == h[self].start
    IN IF n = 0 \/ index0 > n \/ index0 < -n THEN Raise(h, self, "IndexError")
       ELSE LET index == IF index0 < 0 THEN index0 + n ELSE index0
            IN IF index = 0
               THEN IF n = 1 THEN Ok(h, EmptyId)
                    ELSE plist_new(h, HDissoc(phamt, st), st + 1)
               ELSE IF index >= n - 1
               THEN plist_new(h, HDissoc(phamt, st + n - 1), st)
               ELSE IF n - index <= index
               THEN plist_new(h,
                        HDissoc(CopyFrom(phamt, phamt, index + st + 1, n + st, -1),
                                n + st - 1),
                        st)
               ELSE plist_new(h,
                        HDissoc(CopyFrom(phamt, phamt, st, index + st, 1), st),
                        st + 1)

plist_delete(h, self, index0) ==
    LET phamt == h[self].phamt
        n == HLen(phamt)
        st == h[self].start
    IN IF n = 0 THEN Raise(h, self, "IndexError")
       ELSE IF index0 >= n \/ index0 < -n THEN Raise(h, self, "IndexError")
       ELSE LET index == IF index0 < 0 THEN index0 + n ELSE index0
            IN IF index = 0
               THEN IF n = 1 THEN Ok(h, EmptyId)
                    ELSE plist_new(h, HDissoc(phamt, st), st + 1)
               ELSE IF index = n - 1
               THEN plist_new(h, HDissoc(phamt, st + index), st)
               ELSE IF n - index <= index
               THEN plist_new(h,
                        HDissoc(CopyFrom(phamt, phamt, index + st + 1, n + st, -1),
                                n + st - 1),
                        st)
               ELSE plist_new(h,
                        HDissoc(CopyFrom(phamt, phamt, st, index + st, 1), st),
                        st + 1)

\* append that writes the new slot into self instead of into a copy
plist_append_in_place(h, self, obj) ==
    Ok([h EXCEPT ![self].phamt = HAssoc(@, h[self].start + HLen(@), obj)], self)

plist_append(h, self, obj) ==
    LET phamt == h[self].phamt
        n == HLen(phamt)
    IN plist_new(h, HAssoc(phamt, h[self].start + n, obj), h[self].start)

plist_prepend(h, self, obj) ==
    LET new_start == h[self].start - 1
    IN plist_new(h, HAssoc(h[self].phamt, new_start, obj), new_start)

\* insert that takes an index above n to the front
plist_insert_above_to_front(h, self, index0, obj) ==
    LET start == h[self].start
        phamt == h[self].phamt
        n == HLen(phamt)
    IN IF index0 = 0 THEN plist_prepend(h, self, obj)
       ELSE IF index0 = n THEN plist_append(h, self, obj)
       ELSE LET i1 == IF index0 < -n THEN -n ELSE IF index0 > n THEN 0 ELSE index0
                index == IF i1 < 0 THEN i1 + n ELSE i1
            IN IF n - index <= index
               THEN plist_new(h,
                        HAssoc(CopyFrom(phamt, phamt, index + start, n + start, 1),
                               index + start, obj),
                        start)
               ELSE plist_new(h,
                        HAssoc(CopyFrom(phamt, phamt, start, index + start, -1),
                               index + start - 1, obj),
                        start - 1)

plist_insert(h, self, index0, obj) ==
    LET start == h[self].start
        phamt == h[self].phamt
        n == HLen(phamt)
    IN IF index0 = 0 THEN plist_prepend(h, self, obj)
       ELSE IF index0 = n THEN plist_append(h, self, obj)
       ELSE LET i1 == IF index0 < -n THEN -n ELSE IF index0 > n THEN n ELSE index0
                index == IF i1 < 0 THEN i1 + n ELSE i1
            IN IF n - index <= index
               THEN plist_new(h,
                        HAssoc(CopyFrom(phamt, phamt, index + start, n + start, 1),
                               index + start, obj),
                        start)
               ELSE plist_new(h,
                        HAssoc(CopyFrom(phamt, phamt, start, index + start, -1),
                               index + start - 1, obj),
                        start - 1)

\* What iterating a list whose store is m and whose origin is st yields.
list_iter(m, st) ==
    LET n == HLen(m)
    IN IF st >= 0 \/ n + st < 0 THEN HValues(m)
       ELSE [i \in 1..(-st) |-> m[st + i - 1]] \o SubSeq(HValues(m), 1, n + st)

plist_iter(o) == list_iter(o.phamt, o.start)

plist_getitem(o, k) ==
    LET n == HLen(o.phamt)
    IN IF k >= n \/ k < -n THEN [exc |-> "IndexError", val |-> 0]
       ELSE [exc |-> "", val |-> o.phamt[(IF k < 0 THEN k + n ELSE k) + o.start]]

\* An argument of a slice: <<>> when it is omitted (None), <<i>> otherwise.
\* "k.start or 0": the default also replaces an argument that is 0.
SliceArg(a, default) == IF a = <<>> THEN default ELSE IF a[1] = 0 THEN default ELSE a[1]

\* if x <= -n: x = 0 / elif x < 0: x += n / elif x > n: x = n
SliceClamp(x, n) == IF x <= -n THEN 0 ELSE IF x < 0 THEN x + n ELSE IF x > n THEN n ELSE x

\* range(start, stop, step), step # 0
RECURSIVE PyRange(_, _, _)
PyRange(start, stop, step) ==
    IF (step > 0 /\ start >= stop) \/ (step < 0 /\ start <= stop) THEN <<>>
    ELSE <<start>> \o PyRange(start + step, stop, step)

\* The slice branch of __getitem__, the same in plist and tlist: the store of
\* the new list, or the KeyError of a read of a key the store does not have.
list_slice(m, st, k) ==
    LET n == HLen(m)
        step == SliceArg(k.step, 1)
        start == SliceClamp(SliceArg(k.start, 0), n) + st
        stop == SliceClamp(SliceArg(k.stop, n), n) + st
        js == PyRange(start, stop, step)
    IN IF \E i \in DOMAIN js : js[i] \notin DOMAIN m
       THEN [exc |-> "KeyError", m |-> EmptyHamt]
       ELSE [exc |-> "", m |-> [ii \in 0..(Len(js) - 1) |-> m[js[ii + 1]]]]

\* p[start:stop:step]
plist_getslice(h, self, k) ==
    LET r == list_slice(h[self].phamt, h[self].start, k)
    IN IF r.exc # "" THEN Raise(h, self, r.exc) ELSE plist_new(h, r.m, 0)

\* PersistentSequence.drop
plist_drop(h, self, index) ==
    LET n == HLen(h[self].phamt)
    IN IF index < -n \/ index >= n THEN Ok(h, self) ELSE plist_delete(h, self, index)

\* PersistentSequence.pop: (self[index], self.delete(index))
plist_pop(h, self, index) ==
    LET el == plist_getitem(h[self], index)
    IN IF el.exc # "" THEN Raise(h, self, el.exc)
       ELSE [plist_delete(h, self, index) EXCEPT !.val = el.val]

(* ------------------------------ tlist --------------------------------- *)
TOk(tl) == [t |-> tl, exc |-> "", val |-> 0]
TRaise(tl, e) == [t |-> tl, exc |-> e, val |-> 0]

tlist_new(thamt, start, orig) == [thamt |-> thamt, start |-> start, orig |-> orig]

tlist_empty == tlist_new(EmptyHamt, 0, NoneId)

plist_transient(h, self) == tlist_new(h[self].phamt, h[self].start, self)

tlist_persistent(h, tl) ==
    IF HLen(tl.thamt) = 0 THEN Ok(h, EmptyId)
    ELSE IF tl.orig = NoneId THEN plist_new(h, tl.thamt, tl.start)
    ELSE Ok(h, tl.orig)

tlist_iter(tl) == list_iter(tl.thamt, tl.start)

tlist_getitem(tl, k) ==
    LET n == HLen(tl.thamt)
    IN IF k >= n \/ k < -n THEN [exc |-> "IndexError", val |-> 0]
       ELSE [exc |-> "", val |-> tl.thamt[(IF k < 0 THEN k + n ELSE k) + tl.start]]

\* t[start:stop:step]
tlist_getslice(tl, k) ==
    LET r == list_slice(tl.thamt, tl.start, k)
    IN IF r.exc # "" THEN TRaise(tl, r.exc) ELSE TOk(tlist_new(r.m, 0, NoneId))

tlist_setitem(tl, k, v) ==
    LET n == HLen(tl.thamt)
    IN IF k >= n \/ k < -n THEN TRaise(tl, "IndexError")
       ELSE TOk(tlist_new(HAssoc(tl.thamt, (IF k < 0 THEN k + n ELSE k) + tl.start, v),
                          tl.start, NoneId))

\* for ii in range(lo, hi): th[ii] = th[ii + 1]
RECURSIVE ShiftDown(_, _, _)
ShiftDown(th, lo, hi) ==
    IF lo >= hi THEN th ELSE ShiftDown(HAssoc(th, lo, th[lo + 1]), lo + 1, hi)

\* for ii in range(hi, lo, -1): th[ii] = th[ii - 1]
RECURSIVE ShiftUp(_, _, _)
ShiftUp(th, hi, lo) ==
    IF hi <= lo THEN th ELSE ShiftUp(HAssoc(th, hi, th[hi - 1]), hi - 1, lo)

tlist_delitem(tl, index0) ==
    LET st == tl.start
        th == tl.thamt
        n == HLen(th)
    IN IF index0 >= n \/ index0 < -n THEN TRaise(tl, "IndexError")
       ELSE LET index == IF index0 < 0 THEN index0 + n ELSE index0
            IN IF n - index <= index
               THEN TOk(tlist_new(HDissoc(ShiftDown(th, index + st, n + st - 1), n + st - 1),
                                  st, NoneId))
               ELSE TOk(tlist_new(HDissoc(ShiftUp(th, index + st, st), st),
                                  st + 1, NoneId))

tlist_append(tl, obj) ==
    TOk(tlist_new(HAssoc(tl.thamt, HLen(tl.thamt) + tl.start, obj), tl.start, NoneId))

tlist_prepend(tl, obj) ==
    TOk(tlist_new(HAssoc(tl.thamt, tl.start - 1, obj), tl.start - 1, NoneId))

\* insert that always shifts the elements below the index
tlist_insert_left_side(tl, index0, obj) ==
    LET st == tl.start
        th == tl.thamt
        n == HLen(th)
        i1 == IF index0 < -n THEN -n ELSE IF index0 > n THEN n ELSE index0
        index == IF i1 < 0 THEN i1 + n ELSE i1
    IN TOk(tlist_new(HAssoc(ShiftDown(th, st - 1, index + st - 1), index + st - 1, obj),
                     st - 1, NoneId))

tlist_insert(tl, index0, obj) ==
    LET st == tl.start
        th == tl.thamt
        n == HLen(th)
        i1 == IF index0 < -n THEN -n ELSE IF index0 > n THEN n ELSE index0
        index == IF i1 < 0 THEN i1 + n ELSE i1
    IN IF n - index <= index
       THEN TOk(tlist_new(HAssoc(ShiftUp(th, n + st, index + st), index + st, obj),
                          st, NoneId))
       ELSE TOk(tlist_new(HAssoc(ShiftDown(th, st - 1, index + st - 1), index + st - 1, obj),
                          st - 1, NoneId))

\* TransientSequence.pop: el = self[index]; del self[index]; return el
\* pop that returns self[index] and deletes the last element
tlist_pop_last(tl, index) ==
    LET el == tlist_getitem(tl, index)
    IN IF el.exc # "" THEN TRaise(tl, el.exc)
       ELSE [tlist_delitem(tl, -1) EXCEPT !.val = el.val]

tlist_pop(tl, index) ==
    LET el == tlist_getitem(tl, index)
    IN IF el.exc # "" THEN TRaise(tl, el.exc)
       ELSE [tlist_delitem(tl, index) EXCEPT !.val = el.val]

\* tlist.clear
\* TransientSequence.reverse, from the pass k of its loop on:
\* kk = n - k; tmp = self[k]; self[k] = self[kk]; self[kk] = tmp
RECURSIVE reverse_from(_, _, _)
reverse_from(tl, k, n) ==
    IF k >= n \div 2 THEN TOk(tl)
    ELSE LET kk == n - k
             tmp == tlist_getitem(tl, k)
             other == tlist_getitem(tl, kk)
         IN IF tmp.exc # "" THEN TRaise(tl, tmp.exc)
            ELSE IF other.exc # "" THEN TRaise(tl, other.exc)
            ELSE LET s1 == tlist_setitem(tl, k, other.val)
                     s2 == tlist_setitem(s1.t, kk, tmp.val)
                 IN IF s2.exc # "" THEN TRaise(s1.t, s2.exc)
                    ELSE reverse_from(s2.t, k + 1, n)

tlist_reverse(tl) == reverse_from(tl, 0, HLen(tl.thamt))

tlist_clear(tl) == tlist_new(EmptyHamt, 0, NoneId)

(* ----------------------- reference list (list) ------------------------ *)
RefInsert(l, i, v) == SubSeq(l, 1, i) \o <<v>> \o SubSeq(l, i + 1, Len(l))
RefDelete(l, i) == SubSeq(l, 1, i) \o SubSeq(l, i + 2, Len(l))
RefSet(l, i, v) == [l EXCEPT ![i + 1] = v]

\* l[start:stop:step] of the reference list: the bounds an omitted argument
\* takes depend on the sign of step, an index below 0 counts from the end, and
\* what is still outside is clamped to the bounds.
RefSlice(l, k) ==
    LET n == Len(l)
        step == IF k.step = <<>> THEN 1 ELSE k.step[1]
        lower == IF step < 0 THEN -1 ELSE 0
        upper == IF step < 0 THEN n - 1 ELSE n
        Bound(a, d) == IF a = <<>> THEN d
                       ELSE IF a[1] < 0 THEN (IF a[1] + n < lower THEN lower ELSE a[1] + n)
                       ELSE IF a[1] > upper THEN upper ELSE a[1]
        js == PyRange(Bound(k.start, IF step < 0 THEN upper ELSE lower),
                      Bound(k.stop, IF step < 0 THEN lower ELSE upper), step)
    IN [i \in DOMAIN js |-> l[js[i] + 1]]

(* --------------------------- list actions ----------------------------- *)
NoLast == [op |-> "none", agree |-> TRUE, same |-> FALSE, pexc |-> "", texc |-> ""]
NoIter == [active |-> FALSE]

Roots(pp, tt, hs) == {pp, tt.orig} \cup HeldIds(hs)

StartList ==
    /\ NoLazy
    /\ mode = "list"
    /\ univ = Vals
    /\ heap = (EmptyId :> EmptyPlist)
    /\ p = EmptyId
    /\ t = tlist_empty
    /\ ref = <<>>
    /\ pref = <<>>
    /\ held = <<>>
    /\ last = NoLast
    /\ src = NoneId
    /\ it = NoIter

\* One edit applied in lockstep: rp is the persistent result, rt the transient's.
ListStep(rp, rt, l2, lst) ==
    /\ InRange(rp.heap[rp.id].start) /\ InRange(rt.t.start)
    /\ p' = rp.id
    /\ t' = rt.t
    /\ ref' = l2
    /\ pref' = l2
    /\ last' = lst
    /\ src' = NoneId
    /\ heap' = Collect(rp.heap, Roots(rp.id, rt.t, held))
    /\ UNCHANGED lazyvars
    /\ UNCHANGED <<mode, scen, univ, held, it>>

LAppend ==
    /\ mode = "list" /\ Len(ref) < LenCap
    /\ \E v \in Vals :
        ListStep(plist_append(heap, p, v), tlist_append(t, v), Append(ref, v), NoLast)

LPrepend ==
    /\ mode = "list" /\ Len(ref) < LenCap
    /\ \E v \in Vals :
        ListStep(plist_prepend(heap, p, v), tlist_prepend(t, v), <<v>> \o ref, NoLast)

LInsert ==
    /\ mode = "list" /\ Len(ref) < LenCap
    /\ \E v \in Vals, i \in 0..Len(ref) :
        ListStep(plist_insert(heap, p, i, v), tlist_insert(t, i, v), RefInsert(ref, i, v),
                 NoLast)

LSet ==
    /\ mode = "list"
    /\ \E v \in Vals, i \in 0..(Len(ref) - 1) :
        ListStep(plist_set(heap, p, i, v), tlist_setitem(t, i, v), RefSet(ref, i, v), NoLast)

\* pop(i) for 0 <= i < len, and pop() whose index defaults to -1
LPop ==
    /\ mode = "list" /\ Len(ref) > 0
    /\ \E i \in -1..(Len(ref) - 1) :
        LET rp == plist_pop(heap, p, i)
            rt == tlist_pop(t, i)
            j == IF i < 0 THEN i + Len(ref) ELSE i
        IN ListStep(rp, rt, RefDelete(ref, j),
                    [NoLast EXCEPT !.op = "pop", !.pexc = rp.exc, !.texc = rt.exc,
                                   !.agree = rp.val = ref[j + 1] /\ rt.val = ref[j + 1]])

\* t = p.transient()
LTransient ==
    /\ mode = "list"
    /\ t' = plist_transient(heap, p)
    /\ src' = p
    /\ ref' = pref
    /\ last' = NoLast
    /\ heap' = Collect(heap, Roots(p, t', held))
    /\ UNCHANGED lazyvars
    /\ UNCHANGED <<mode, scen, univ, p, pref, held, it>>

\* What the caller does with q = t.persistent(): q is compared with p, kept when
\* values are kept, and the persistent edits go on from q.
Published(r, view, pview) ==
    /\ held' = IF scen = "hold" THEN <<[id |-> r.id, view |-> view]>> ELSE held
    /\ p' = r.id
    /\ pref' = ref
    /\ heap' = Collect(r.heap, Roots(r.id, t, held'))
    /\ last' = [NoLast EXCEPT !.op = "persistent", !.agree = (view = pview),
                              !.same = (r.id = p)]
    /\ UNCHANGED lazyvars
    /\ UNCHANGED <<mode, scen, univ, t, ref, src, it>>

LPersistent ==
    /\ mode = "list"
    /\ LET r == tlist_persistent(heap, t)
       IN Published(r, plist_iter(r.heap[r.id]), plist_iter(heap[p]))

\* the caller keeps a reference to the current p
Hold(view) ==
    /\ scen = "hold"
    /\ held' = <<[id |-> p, view |-> view]>>
    /\ heap' = Collect(heap, Roots(p, t, held'))
    /\ last' = NoLast
    /\ UNCHANGED lazyvars
    /\ UNCHANGED <<mode, scen, univ, p, t, ref, pref, src, it>>

LHold == mode = "list" /\ Hold(plist_iter(heap[p]))

NextList == LAppend \/ LPrepend \/ LInsert \/ LSet \/ LPop \/ LTransient \/ LPersistent
NextListHold == NextList \/ LHold

InitList == StartList /\ scen = "plain"
SpecList == InitList /\ [][NextList]_vars

(* ------------------- list actions with any index --------------------- *)
\* the indices tried on a list of length n: every valid one, and one below -n
\* and one above n - 1 (n itself) and n + 1
Idx(n) == (-(n + 1))..(n + 1)

InIdx(i, n) == -n <= i /\ i < n
Wrap(i, n) == IF i < 0 THEN i + n ELSE i

\* where l.insert(i, v) of the reference list puts v
RefInsertPos(i, n) == IF i < -n THEN 0 ELSE IF i < 0 THEN i + n ELSE IF i > n THEN n ELSE i

\* One edit applied in lockstep; a side that raised stays as it was.
ListEdit(rp, rt, l2, pl2, lst) ==
    /\ InRange(rp.heap[rp.id].start) /\ InRange(rt.t.start)
    /\ p' = rp.id
    /\ t' = rt.t
    /\ ref' = IF rt.exc = "" THEN l2 ELSE ref
    /\ pref' = IF rp.exc = "" THEN pl2 ELSE pref
    /\ last' = [lst EXCEPT !.pexc = rp.exc, !.texc = rt.exc]
    /\ src' = NoneId
    /\ heap' = Collect(rp.heap, Roots(rp.id, rt.t, held))
    /\ UNCHANGED lazyvars
    /\ UNCHANGED <<mode, scen, univ, held, it>>

\* what a call with index i on a list of length n is to do: raise IndexError
\* and change nothing when i is out of range
IndexErrorIff(i, rp, rt) ==
    /\ rp.exc = (IF InIdx(i, Len(pref)) THEN "" ELSE "IndexError")
    /\ rt.exc = (IF InIdx(i, Len(ref)) THEN "" ELSE "IndexError")
    /\ rp.exc # "" => rp.id = p /\ rp.heap = heap
    /\ rt.exc # "" => rt.t = t

\* p[i] and t[i]
LGetAt ==
    /\ mode = "list"
    /\ \E i \in Idx(Len(ref)) :
        LET g == plist_getitem(heap[p], i)
            gt == tlist_getitem(t, i)
        IN last' = [NoLast EXCEPT !.op = "get", !.pexc = g.exc, !.texc = gt.exc,
                       !.agree = /\ g.exc = (IF InIdx(i, Len(pref)) THEN "" ELSE "IndexError")
                                 /\ gt.exc = (IF InIdx(i, Len(ref)) THEN "" ELSE "IndexError")
                                 /\ g.exc = "" => g.val = pref[Wrap(i, Len(pref)) + 1]
                                 /\ gt.exc = "" => gt.val = ref[Wrap(i, Len(ref)) + 1]]
    /\ UNCHANGED lazyvars
    /\ UNCHANGED <<mode, scen, univ, heap, p, t, ref, pref, held, src, it>>

\* p.set(i, v) and t[i] = v
LSetAt ==
    /\ mode = "list"
    /\ \E i \in Idx(Len(ref)), v \in Vals :
        LET rp == plist_set(heap, p, i, v)
            rt == tlist_setitem(t, i, v)
        IN ListEdit(rp, rt,
                    IF InIdx(i, Len(ref)) THEN RefSet(ref, Wrap(i, Len(ref)), v) ELSE ref,
                    IF InIdx(i, Len(pref)) THEN RefSet(pref, Wrap(i, Len(pref)), v) ELSE pref,
                    [NoLast EXCEPT !.op = "set", !.agree = IndexErrorIff(i, rp, rt)])

\* p.delete(i) and del t[i]
LDelete ==
    /\ mode = "list"
    /\ scen = "ten" => Len(pref) > TenLen - MaxDeletes
    /\ \E i \in Idx(Len(ref)) :
        LET rp == plist_delete(heap, p, i)
            rt == tlist_delitem(t, i)
        IN ListEdit(rp, rt,
                    IF InIdx(i, Len(ref)) THEN RefDelete(ref, Wrap(i, Len(ref))) ELSE ref,
                    IF InIdx(i, Len(pref)) THEN RefDelete(pref, Wrap(i, Len(pref))) ELSE pref,
                    [NoLast EXCEPT !.op = "delete", !.agree = IndexErrorIff(i, rp, rt)])

\* p.drop(i); the transient has no drop and takes del t[i]
LDrop ==
    /\ mode = "list"
    /\ \E i \in Idx(Len(ref)) :
        LET rp == plist_drop(heap, p, i)
            rt == tlist_delitem(t, i)
        IN ListEdit(rp, rt,
                    IF InIdx(i, Len(ref)) THEN RefDelete(ref, Wrap(i, Len(ref))) ELSE ref,
                    IF InIdx(i, Len(pref)) THEN RefDelete(pref, Wrap(i, Len(pref))) ELSE pref,
                    [NoLast EXCEPT !.op = "drop",
                        !.agree = /\ rp.exc = ""
                                  /\ ~InIdx(i, Len(pref)) => rp.id = p /\ rp.heap = heap
                                  /\ InIdx(i, Len(pref)) => rp.id # p])

\* p.insert(i, v) and t.insert(i, v), the index inside [-len, len] or outside
LInsertAt ==
    /\ mode = "list" /\ Len(ref) < LenCap
    /\ \E i \in Idx(Len(ref)), v \in Vals :
        LET rp == plist_insert(heap, p, i, v)
            rt == tlist_insert(t, i, v)
            n == Len(ref)
        IN ListEdit(rp, rt, RefInsert(ref, RefInsertPos(i, n), v),
                    RefInsert(pref, RefInsertPos(i, Len(pref)), v),
                    [NoLast EXCEPT !.op = IF i > n THEN "insert above"
                                          ELSE IF i < -n THEN "insert below" ELSE "insert",
                                   !.same = rp.id = p])

NextListIdx == LGetAt \/ LSetAt \/ LDelete \/ LDrop \/ LInsertAt
InitListIdx == StartList /\ scen = "plain"
SpecListIdx == InitListIdx /\ [][NextListIdx]_vars

(* ------------------------ the list of 0..9 ---------------------------- *)
\* list(range(10))
Ten == [i \in 1..TenLen |-> i - 1]

\* p = plist(range(10)) and t = tlist(range(10)), or the same lists with the
\* origin moved by an earlier prepend / delete; the caller keeps p.
StartTen ==
    /\ NoLazy
    /\ mode = "list"
    /\ univ = Vals
    /\ p = 2
    /\ \E st \in {-1, 0, 1} :
        /\ heap = (EmptyId :> EmptyPlist)
                    @@ (2 :> [phamt |-> [k \in st..(st + TenLen - 1) |-> k - st], start |-> st])
        /\ t = tlist_new(heap[p].phamt, st, NoneId)
    /\ ref = Ten
    /\ pref = Ten
    /\ held = <<[id |-> p, view |-> Ten]>>
    /\ last = NoLast
    /\ src = NoneId
    /\ it = NoIter

InitTen == StartTen /\ scen = "ten"
NextTen == LDelete
SpecTen == InitTen /\ [][NextTen]_vars

(* ------------------------------- pset --------------------------------- *)
\* hash() of an integer: itself when it is small, but -2 for -1, and the
\* remainder modulo 2^61 - 1 when it is not small
Hash(obj) == IF obj = -1 THEN -2 ELSE IF obj >= Wide THEN obj % Wide ELSE obj

\* "no slot": the None that ends a chain of elements with one hash
NoSlot == -1

HGet(m, k, default) == IF k \in DOMAIN m THEN m[k] ELSE default

EmptyPset == [els |-> EmptyHamt, idx |-> EmptyHamt, top |-> 0]

pset_new(h, els, idx, top) ==
    LET id == FreshId(h)
    IN Ok(h @@ (id :> [els |-> els, idx |-> idx, top |-> top]), id)

\* The walk along a chain that add and discard make: where obj was found (at,
\* with the slot before it), or the last slot of the chain (prev) when it was not.
RECURSIVE SetWalk(_, _, _, _)
SetWalk(els, ii, ii_prev, obj) ==
    IF ii = NoSlot THEN [found |-> FALSE, at |-> NoSlot, prev |-> ii_prev]
    ELSE IF els[ii].x = obj THEN [found |-> TRUE, at |-> ii, prev |-> ii_prev]
    ELSE SetWalk(els, els[ii].nxt, ii, obj)

set_contains(o, el) == SetWalk(o.els, HGet(o.idx, Hash(el), NoSlot), NoSlot, el).found

\* iteration in the order of the elements instead of the order of the slots
set_iter_by_element(els) == KeysInOrder({els[k].x : k \in DOMAIN els})

\* map(lambda u: u[1][0], self._els)
set_iter(els) == LET vs == HValues(els) IN [i \in 1..Len(vs) |-> vs[i].x]

pset_add(h, self, obj) ==
    LET o == h[self]
        ii == HGet(o.idx, Hash(obj), NoSlot)
    IN IF ii = NoSlot
       THEN pset_new(h, HAssoc(o.els, o.top, [x |-> obj, nxt |-> NoSlot]),
                     HAssoc(o.idx, Hash(obj), o.top), o.top + 1)
       ELSE IF SetWalk(o.els, ii, NoSlot, obj).found THEN Ok(h, self)
       ELSE Raise(h, self, "UnboundLocalError")   \* new_idx is not bound on this path

\* discard that unlinks only the first element of a chain
pset_discard_head_only(h, self, obj) ==
    LET o == h[self]
        w == SetWalk(o.els, HGet(o.idx, Hash(obj), NoSlot), NoSlot, obj)
    IN IF ~w.found \/ w.prev # NoSlot THEN Ok(h, self)
       ELSE LET ii_next == o.els[w.at].nxt
            IN pset_new(h, HDissoc(o.els, w.at),
                        IF ii_next = NoSlot THEN HDissoc(o.idx, Hash(obj))
                        ELSE HAssoc(o.idx, Hash(obj), ii_next), o.top)

pset_discard(h, self, obj) ==
    LET o == h[self]
        w == SetWalk(o.els, HGet(o.idx, Hash(obj), NoSlot), NoSlot, obj)
    IN IF ~w.found THEN Ok(h, self)
       ELSE LET ii_next == o.els[w.at].nxt
                new_idx == IF w.prev # NoSlot THEN o.idx
                           ELSE IF ii_next = NoSlot THEN HDissoc(o.idx, Hash(obj))
                           ELSE HAssoc(o.idx, Hash(obj), ii_next)
                new_els == IF w.prev = NoSlot THEN o.els
                           ELSE HAssoc(o.els, w.prev, [x |-> o.els[w.prev].x, nxt |-> ii_next])
            IN pset_new(h, HDissoc(new_els, w.at), new_idx, o.top)

\* remove that does not compare the lengths
pset_remove_quiet(h, self, obj) == pset_discard(h, self, obj)

\* PersistentSet.remove
pset_remove(h, self, obj) ==
    LET r == pset_discard(h, self, obj)
    IN IF r.exc # "" THEN r
       ELSE IF HLen(r.heap[r.id].els) = HLen(h[self].els) THEN Raise(h, self, "KeyError")
       ELSE r

(* ------------------------------- tset --------------------------------- *)
tset_new(els, idx, top, orig) == [els |-> els, idx |-> idx, top |-> top, orig |-> orig]
tset_empty == tset_new(EmptyHamt, EmptyHamt, 0, NoneId)

pset_transient(h, self) == tset_new(h[self].els, h[self].idx, h[self].top, self)

tset_persistent(h, ts) ==
    IF HLen(ts.els) = 0 THEN Ok(h, EmptyId)
    ELSE IF ts.orig = NoneId THEN pset_new(h, ts.els, ts.idx, ts.top)
    ELSE Ok(h, ts.orig)

\* add that leaves a slot free after the one it fills
tset_add_skip_slot(ts, obj) ==
    LET ii_first == HGet(ts.idx, Hash(obj), NoSlot)
        w == SetWalk(ts.els, ii_first, NoSlot, obj)
        els1 == HAssoc(ts.els, ts.top, [x |-> obj, nxt |-> NoSlot])
    IN IF ii_first = NoSlot
       THEN TOk(tset_new(els1, HAssoc(ts.idx, Hash(obj), ts.top), ts.top + 2, NoneId))
       ELSE IF w.found THEN TOk(ts)
       ELSE TOk(tset_new(HAssoc(els1, w.prev, [x |-> ts.els[w.prev].x, nxt |-> ts.top]),
                         ts.idx, ts.top + 2, NoneId))

tset_add(ts, obj) ==
    LET ii_first == HGet(ts.idx, Hash(obj), NoSlot)
        w == SetWalk(ts.els, ii_first, NoSlot, obj)
        els1 == HAssoc(ts.els, ts.top, [x |-> obj, nxt |-> NoSlot])
    IN IF ii_first = NoSlot
       THEN TOk(tset_new(els1, HAssoc(ts.idx, Hash(obj), ts.top), ts.top + 1, NoneId))
       ELSE IF w.found THEN TOk(ts)
       ELSE TOk(tset_new(HAssoc(els1, w.prev, [x |-> ts.els[w.prev].x, nxt |-> ts.top]),
                         ts.idx, ts.top + 1, NoneId))

\* discard that ends the chain at the element before the removed one
tset_discard_cut_chain(ts, obj) ==
    LET w == SetWalk(ts.els, HGet(ts.idx, Hash(obj), NoSlot), NoSlot, obj)
    IN IF ~w.found THEN TOk(ts)
       ELSE LET ii_next == ts.els[w.at].nxt
            IN IF w.prev = NoSlot
               THEN TOk(tset_new(HDissoc(ts.els, w.at),
                                 IF ii_next = NoSlot THEN HDissoc(ts.idx, Hash(obj))
                                 ELSE HAssoc(ts.idx, Hash(obj), ii_next),
                                 ts.top, NoneId))
               ELSE TOk(tset_new(HAssoc(HDissoc(ts.els, w.at), w.prev,
                                        [x |-> ts.els[w.prev].x, nxt |-> NoSlot]),
                                 ts.idx, ts.top, NoneId))

tset_discard(ts, obj) ==
    LET w == SetWalk(ts.els, HGet(ts.idx, Hash(obj), NoSlot), NoSlot, obj)
    IN IF ~w.found THEN TOk(ts)
       ELSE LET ii_next == ts.els[w.at].nxt
            IN IF w.prev = NoSlot
               THEN TOk(tset_new(HDissoc(ts.els, w.at),
                                 IF ii_next = NoSlot THEN HDissoc(ts.idx, Hash(obj))
                                 ELSE HAssoc(ts.idx, Hash(obj), ii_next),
                                 ts.top, NoneId))
               ELSE TOk(tset_new(HAssoc(HDissoc(ts.els, w.at), w.prev,
                                        [x |-> ts.els[w.prev].x, nxt |-> ii_next]),
                                 ts.idx, ts.top, NoneId))

\* TransientSet.remove
tset_remove(ts, obj) ==
    LET r == tset_discard(ts, obj)
    IN IF HLen(r.t.els) = HLen(ts.els) THEN TRaise(r.t, "KeyError") ELSE r

\* tset.clear
tset_clear(ts) == tset_new(EmptyHamt, EmptyHamt, 0, NoneId)

(* ------------------------- comparing two sets ------------------------- *)
\* setcmp(set1, set2) of two psets / tsets: what it returns, as a string
setcmp(set1, set2) ==
    LET n1 == HLen(set1.els)
        n2 == HLen(set2.els)
        a == IF n1 < n2 THEN set1 ELSE set2
        b == IF n1 < n2 THEN set2 ELSE set1
        na == HLen(a.els)
        nb == HLen(b.els)
        isects == Cardinality({i \in DOMAIN a.els : set_contains(b, a.els[i].x)})
    IN IF isects = 0
       THEN IF na = 0
            THEN IF nb = 0 THEN "0" ELSE IF n1 < n2 THEN "-1" ELSE "1"
            ELSE "None"
       ELSE IF isects < na THEN "Ellipsis"
       ELSE IF n1 = n2 THEN "0"
       ELSE IF n1 < n2 THEN "-1" ELSE "1"

\* PersistentSet.isdisjoint / TransientSet.isdisjoint
set_isdisjoint(self, other) == setcmp(self, other) = "None"

(* ---------------------------- set actions ----------------------------- *)
Range(l) == {l[i] : i \in DOMAIN l}
RefAdd(l, v) == IF v \in Range(l) THEN l ELSE Append(l, v)
RefDiscard(l, v) == SelectSeq(l, LAMBDA x : x # v)

StartSet ==
    /\ NoLazy
    /\ mode = "set"
    /\ heap = (EmptyId :> EmptyPset)
    /\ p = EmptyId
    /\ t = tset_empty
    /\ ref = <<>>
    /\ pref = <<>>
    /\ held = <<>>
    /\ last = NoLast
    /\ src = NoneId
    /\ it = NoIter

\* An iterator in progress (one step made, not exhausted) sees an element added
\* that was not there.
IterGrown(grows) ==
    IF it.active /\ grows /\ it.out = "yield" THEN [it EXCEPT !.grew = TRUE] ELSE it

\* One edit applied in lockstep; l2 and pl2 are the edited references.  An edit that
\* raised leaves its side as it was.
SetStep(rp, rt, l2, pl2, lst) ==
    /\ p' = rp.id
    /\ t' = rt.t
    /\ ref' = IF rt.exc = "" THEN l2 ELSE ref
    /\ pref' = IF rp.exc = "" THEN pl2 ELSE pref
    /\ last' = [lst EXCEPT !.pexc = rp.exc, !.texc = rt.exc]
    /\ src' = NoneId
    /\ heap' = Collect(rp.heap, Roots(rp.id, rt.t, held))
    /\ it' = IterGrown(HLen(rt.t.els) > HLen(t.els))
    /\ UNCHANGED lazyvars
    /\ UNCHANGED <<mode, scen, univ, held>>

SAdd ==
    /\ mode = "set"
    /\ \E v \in univ :
        /\ v \in Range(ref) \/ t.top < TopCap
        /\ SetStep(pset_add(heap, p, v), tset_add(t, v), RefAdd(ref, v), RefAdd(pref, v), NoLast)

SDiscard ==
    /\ mode = "set"
    /\ \E v \in univ :
        SetStep(pset_discard(heap, p, v), tset_discard(t, v), RefDiscard(ref, v),
                RefDiscard(pref, v), NoLast)

SRemove ==
    /\ mode = "set"
    /\ \E v \in univ :
        LET rp == pset_remove(heap, p, v)
            rt == tset_remove(t, v)
        IN SetStep(rp, rt, RefDiscard(ref, v), RefDiscard(pref, v),
                   [NoLast EXCEPT !.op = "remove",
                       !.agree = /\ rp.exc = IF v \in Range(pref) THEN "" ELSE "KeyError"
                                 /\ rt.exc = IF v \in Range(ref) THEN "" ELSE "KeyError"])

\* t = p.transient()
STransient ==
    /\ mode = "set"
    /\ t' = pset_transient(heap, p)
    /\ src' = p
    /\ ref' = pref
    /\ last' = NoLast
    /\ it' = NoIter
    /\ heap' = Collect(heap, Roots(p, t', held))
    /\ UNCHANGED lazyvars
    /\ UNCHANGED <<mode, scen, univ, p, pref, held>>

SPersistent ==
    /\ mode = "set"
    /\ LET r == tset_persistent(heap, t)
       IN Published(r, set_iter(r.heap[r.id].els), set_iter(heap[p].els))

SHold == mode = "set" /\ Hold(set_iter(heap[p].els))

(* --------------------- iterating a transient set ---------------------- *)
\* it = iter(t): a map over the THAMT of elements
NewIter(els, version) ==
    [active |-> TRUE, snap |-> els, pos |-> NoSlot, v0 |-> version,
     out |-> "", val |-> 0, grew |-> FALSE, struct |-> FALSE, over |-> FALSE,
     trap |-> FALSE]

\* The slot the traversal of a THAMT reaches after slot pos
NextSlot(view, pos) ==
    LET later == {k \in DOMAIN view : k > pos}
    IN IF later = {} THEN NoSlot ELSE CHOOSE k \in later : \A j \in later : k <= j

SIterNew ==
    /\ mode = "set" /\ scen = "iter"
    /\ it' = NewIter(t.els, 0)
    /\ last' = NoLast
    /\ UNCHANGED lazyvars
    /\ UNCHANGED <<mode, scen, univ, heap, p, t, ref, pref, held, src>>

\* next(it).  What the traversal of a THAMT that was changed under it visits is
\* not defined: it walks the nodes it started from or the changed ones.
SIterNext ==
    /\ mode = "set" /\ scen = "iter" /\ it.active /\ it.out # "stop"
    /\ \E view \in {it.snap, t.els} :
        LET k == NextSlot(view, it.pos)
        IN it' = IF k = NoSlot THEN [it EXCEPT !.out = "stop", !.trap = it.grew]
                 ELSE [it EXCEPT !.out = "yield", !.val = view[k].x, !.pos = k,
                                 !.trap = it.grew]
    /\ last' = NoLast
    /\ UNCHANGED lazyvars
    /\ UNCHANGED <<mode, scen, univ, heap, p, t, ref, pref, held, src>>

NextSet == SAdd \/ SDiscard \/ SRemove \/ STransient \/ SPersistent
NextSetHold == NextSet \/ SHold
NextSetIter == NextSet \/ SIterNew \/ SIterNext

InitSet == StartSet /\ scen = "plain" /\ univ = Elems
SpecSet == InitSet /\ [][NextSet]_vars

InitSetIter == StartSet /\ scen = "iter" /\ univ = FewElems
SpecSetIter == InitSetIter /\ [][NextSetIter]_vars

(* ------------------------------- pdict -------------------------------- *)
EmptyPdict == [els |-> EmptyHamt, idx |-> EmptyHamt, top |-> 0]

pdict_new(h, els, idx, top) ==
    LET id == FreshId(h)
    IN Ok(h @@ (id :> [els |-> els, idx |-> idx, top |-> top]), id)

Entry(k, v, nxt) == [k |-> k, v |-> v, nxt |-> nxt]

\* The walk along a chain that drop, pop and the transient's edits make
RECURSIVE DictWalk(_, _, _, _)
DictWalk(els, ii, ii_prev, key) ==
    IF ii = NoSlot THEN [found |-> FALSE, at |-> NoSlot, prev |-> ii_prev]
    ELSE IF els[ii].k = key THEN [found |-> TRUE, at |-> ii, prev |-> ii_prev]
    ELSE DictWalk(els, els[ii].nxt, ii, key)

dict_getitem(o, key) ==
    LET w == DictWalk(o.els, HGet(o.idx, Hash(key), NoSlot), NoSlot, key)
    IN IF w.found THEN [exc |-> "", val |-> o.els[w.at].v] ELSE [exc |-> "KeyError", val |-> 0]

dict_contains(o, key) == DictWalk(o.els, HGet(o.idx, Hash(key), NoSlot), NoSlot, key).found

\* map(lambda arg: arg[1][0][0], self._els)
dict_iter(els) == LET vs == HValues(els) IN [i \in 1..Len(vs) |-> vs[i].k]
dict_items(els) == LET vs == HValues(els) IN [i \in 1..Len(vs) |-> [k |-> vs[i].k, v |-> vs[i].v]]

\* set that returns self whenever the key is there
pdict_set_keep(h, self, key, val) ==
    LET o == h[self]
        ii == HGet(o.idx, Hash(key), NoSlot)
    IN IF ii = NoSlot
       THEN pdict_new(h, HAssoc(o.els, o.top, Entry(key, val, NoSlot)),
                      HAssoc(o.idx, Hash(key), o.top), o.top + 1)
       ELSE IF o.els[ii].k = key THEN Ok(h, self)
       ELSE Raise(h, self, "NoReturn")

\* The loop of set never moves on from the first slot of the chain: when the
\* key there is another one, the call does not return.
pdict_set(h, self, key, val) ==
    LET o == h[self]
        ii == HGet(o.idx, Hash(key), NoSlot)
    IN IF ii = NoSlot
       THEN pdict_new(h, HAssoc(o.els, o.top, Entry(key, val, NoSlot)),
                      HAssoc(o.idx, Hash(key), o.top), o.top + 1)
       ELSE IF o.els[ii].k = key
       THEN IF o.els[ii].v = val THEN Ok(h, self)
            ELSE pdict_new(h, HAssoc(o.els, ii, Entry(key, val, o.els[ii].nxt)), o.idx, o.top)
       ELSE Raise(h, self, "NoReturn")

\* what drop and pop do when the walk found the key
pdict_unlink(h, o, w, key) ==
    LET ii_next == o.els[w.at].nxt
        new_idx == IF w.prev # NoSlot THEN o.idx
                   ELSE IF ii_next = NoSlot THEN HDissoc(o.idx, Hash(key))
                   ELSE HAssoc(o.idx, Hash(key), ii_next)
        new_els == IF w.prev = NoSlot THEN o.els
                   ELSE HAssoc(o.els, w.prev, [o.els[w.prev] EXCEPT !.nxt = ii_next])
    IN pdict_new(h, HDissoc(new_els, w.at), new_idx, o.top)

\* drop that returns a copy of self when the key is absent
pdict_drop_copies(h, self, key) ==
    LET o == h[self]
        w == DictWalk(o.els, HGet(o.idx, Hash(key), NoSlot), NoSlot, key)
    IN IF w.found THEN pdict_unlink(h, o, w, key) ELSE pdict_new(h, o.els, o.idx, o.top)

pdict_drop(h, self, key) ==
    LET o == h[self]
        w == DictWalk(o.els, HGet(o.idx, Hash(key), NoSlot), NoSlot, key)
    IN IF w.found THEN pdict_unlink(h, o, w, key) ELSE Ok(h, self)

\* pop(key) without a default
pdict_pop(h, self, key) ==
    LET o == h[self]
        w == DictWalk(o.els, HGet(o.idx, Hash(key), NoSlot), NoSlot, key)
    IN IF w.found THEN [pdict_unlink(h, o, w, key) EXCEPT !.val = o.els[w.at].v]
       ELSE Raise(h, self, "KeyError")

\* pop(key, default)
pdict_pop_default(h, self, key, default) ==
    LET o == h[self]
        w == DictWalk(o.els, HGet(o.idx, Hash(key), NoSlot), NoSlot, key)
    IN IF w.found THEN [pdict_unlink(h, o, w, key) EXCEPT !.val = o.els[w.at].v]
       ELSE [Ok(h, self) EXCEPT !.val = default]

\* PersistentMapping.delete
pdict_delete(h, self, key) ==
    IF dict_contains(h[self], key) THEN pdict_drop(h, self, key) ELSE Raise(h, self, "KeyError")

(* ------------------------------- tdict -------------------------------- *)
tdict_new(els, idx, top, orig) ==
    [els |-> els, idx |-> idx, top |-> top, version |-> 0, orig |-> orig]
tdict_empty == tdict_new(EmptyHamt, EmptyHamt, 0, NoneId)

pdict_transient(h, self) == tdict_new(h[self].els, h[self].idx, h[self].top, self)

tdict_persistent(h, td) ==
    IF HLen(td.els) = 0 THEN Ok(h, EmptyId)
    ELSE IF td.orig # NoneId THEN Ok(h, td.orig)
    ELSE pdict_new(h, td.els, td.idx, td.top)

tdict_setitem(td, k, v) ==
    LET w == DictWalk(td.els, HGet(td.idx, Hash(k), NoSlot), NoSlot, k)
        els1 == HAssoc(td.els, td.top, Entry(k, v, NoSlot))
    IN IF w.found
       THEN IF td.els[w.at].v # v
            THEN TOk([td EXCEPT !.els = HAssoc(td.els, w.at, Entry(k, v, td.els[w.at].nxt)),
                                !.orig = NoneId])
            ELSE TOk(td)
       ELSE TOk([td EXCEPT
                   !.els = IF w.prev = NoSlot THEN els1
                           ELSE HAssoc(els1, w.prev, [td.els[w.prev] EXCEPT !.nxt = td.top]),
                   !.idx = IF w.prev = NoSlot THEN HAssoc(td.idx, Hash(k), td.top) ELSE td.idx,
                   !.top = td.top + 1,
                   !.version = td.version + 1,
                   !.orig = NoneId])

\* what __delitem__ and pop do when the walk found the key
tdict_unlink(td, w, key) ==
    LET ii_next == td.els[w.at].nxt
        els1 == IF w.prev = NoSlot THEN td.els
                ELSE HAssoc(td.els, w.prev, [td.els[w.prev] EXCEPT !.nxt = ii_next])
    IN [td EXCEPT !.els = HDissoc(els1, w.at),
                  !.idx = IF w.prev # NoSlot THEN td.idx
                          ELSE IF ii_next = NoSlot THEN HDissoc(td.idx, Hash(key))
                          ELSE HAssoc(td.idx, Hash(key), ii_next),
                  !.version = td.version + 1,
                  !.orig = NoneId]

tdict_delitem(td, key) ==
    LET w == DictWalk(td.els, HGet(td.idx, Hash(key), NoSlot), NoSlot, key)
    IN IF w.found THEN TOk(tdict_unlink(td, w, key)) ELSE TRaise(td, "KeyError")

\* pop(key) without a default
tdict_pop(td, key) ==
    LET w == DictWalk(td.els, HGet(td.idx, Hash(key), NoSlot), NoSlot, key)
    IN IF w.found THEN [TOk(tdict_unlink(td, w, key)) EXCEPT !.val = td.els[w.at].v]
       ELSE TRaise(td, "KeyError")

\* pop(key, default)
tdict_pop_default(td, key, default) ==
    LET w == DictWalk(td.els, HGet(td.idx, Hash(key), NoSlot), NoSlot, key)
    IN IF w.found THEN [TOk(tdict_unlink(td, w, key)) EXCEPT !.val = td.els[w.at].v]
       ELSE [TOk(td) EXCEPT !.val = default]

\* tdict.clear: the stores, top and version are reset; _orig is not assigned
\* tdict.get: the walk of __getitem__, then "raise default"; a default that is
\* no exception (None, or a value) makes that statement raise TypeError
tdict_get(td, key, default) ==
    LET w == DictWalk(td.els, HGet(td.idx, Hash(key), NoSlot), NoSlot, key)
    IN IF w.found THEN [TOk(td) EXCEPT !.val = td.els[w.at].v] ELSE TRaise(td, "TypeError")

tdict_clear(td) == [td EXCEPT !.els = EmptyHamt, !.idx = EmptyHamt, !.top = 0, !.version = 0]

(* ---------------------------- dict actions ---------------------------- *)
Keys(l) == {l[i].k : i \in DOMAIN l}
RefGet(l, k) == LET i == CHOOSE j \in DOMAIN l : l[j].k = k IN l[i].v
RefPut(l, k, v) ==
    IF k \in Keys(l) THEN [i \in DOMAIN l |-> IF l[i].k = k THEN [k |-> k, v |-> v] ELSE l[i]]
    ELSE Append(l, [k |-> k, v |-> v])
RefDrop(l, k) == SelectSeq(l, LAMBDA e : e.k # k)

StartDict ==
    /\ NoLazy
    /\ mode = "dict"
    /\ heap = (EmptyId :> EmptyPdict)
    /\ p = EmptyId
    /\ t = tdict_empty
    /\ ref = <<>>
    /\ pref = <<>>
    /\ held = <<>>
    /\ last = NoLast
    /\ src = NoneId
    /\ it = NoIter

\* What an existing iterator has seen happen to t since it was made: a change of
\* the key set (struct) or of a value only (over).
IterSeen(l2) ==
    IF ~it.active THEN it
    ELSE IF Keys(l2) # Keys(ref) THEN [it EXCEPT !.struct = TRUE]
    ELSE IF l2 # ref THEN [it EXCEPT !.over = TRUE]
    ELSE it

\* One edit applied in lockstep; l2 and pl2 are the edited references.  An edit that
\* raised or did not return leaves its side as it was.
DictStep(rp, rt, l2, pl2, lst) ==
    /\ p' = rp.id
    /\ t' = rt.t
    /\ ref' = IF rt.exc = "" THEN l2 ELSE ref
    /\ pref' = IF rp.exc = "" THEN pl2 ELSE pref
    /\ last' = [lst EXCEPT !.pexc = rp.exc, !.texc = rt.exc]
    /\ src' = NoneId
    /\ heap' = Collect(rp.heap, Roots(rp.id, rt.t, held))
    /\ it' = IterSeen(ref')
    /\ UNCHANGED lazyvars
    /\ UNCHANGED <<mode, scen, univ, held>>

DSet ==
    /\ mode = "dict"
    /\ \E k \in univ, v \in Vals :
        /\ k \in Keys(ref) \/ t.top < TopCap
        /\ DictStep(pdict_set(heap, p, k, v), tdict_setitem(t, k, v),
                    RefPut(ref, k, v), RefPut(pref, k, v), NoLast)

\* drop(k) on the pdict, del t[k] on the tdict
DDrop ==
    /\ mode = "dict"
    /\ \E k \in univ :
        DictStep(pdict_drop(heap, p, k), tdict_delitem(t, k), RefDrop(ref, k), RefDrop(pref, k),
                 [NoLast EXCEPT !.op = "del"])

\* delete(k) on the pdict, del t[k] on the tdict
DDelete ==
    /\ mode = "dict"
    /\ \E k \in univ :
        DictStep(pdict_delete(heap, p, k), tdict_delitem(t, k), RefDrop(ref, k),
                 RefDrop(pref, k),
                 [NoLast EXCEPT !.op = "del"])

DPop ==
    /\ mode = "dict"
    /\ \E k \in univ :
        LET rp == pdict_pop(heap, p, k)
            rt == tdict_pop(t, k)
        IN DictStep(rp, rt, RefDrop(ref, k), RefDrop(pref, k),
                    [NoLast EXCEPT !.op = "pop",
                        !.agree = /\ k \in Keys(ref) => rt.val = RefGet(ref, k)
                                  /\ k \in Keys(pref) => rp.val = RefGet(pref, k)])

\* pop(k, 0) on both, 0 being none of the values stored
DPopDefault ==
    /\ mode = "dict"
    /\ \E k \in univ :
        LET rp == pdict_pop_default(heap, p, k, 0)
            rt == tdict_pop_default(t, k, 0)
        IN DictStep(rp, rt, RefDrop(ref, k), RefDrop(pref, k),
                    [NoLast EXCEPT !.op = "pop default", !.same = rp.id = p,
                        !.agree = /\ rt.val = IF k \in Keys(ref) THEN RefGet(ref, k) ELSE 0
                                  /\ rp.val = IF k \in Keys(pref) THEN RefGet(pref, k) ELSE 0
                                  /\ k \notin Keys(ref) => rt.t = t
                                  /\ k \notin Keys(pref) => rp.id = p /\ rp.heap = heap])

\* t = p.transient()
DTransient ==
    /\ mode = "dict"
    /\ t' = pdict_transient(heap, p)
    /\ src' = p
    /\ ref' = pref
    /\ last' = NoLast
    /\ it' = NoIter
    /\ heap' = Collect(heap, Roots(p, t', held))
    /\ UNCHANGED lazyvars
    /\ UNCHANGED <<mode, scen, univ, p, pref, held>>

DPersistent ==
    /\ mode = "dict"
    /\ LET r == tdict_persistent(heap, t)
       IN Published(r, dict_items(r.heap[r.id].els), dict_items(heap[p].els))

DHold == mode = "dict" /\ Hold(dict_items(heap[p].els))

(* --------------------- iterating a transient dict --------------------- *)
\* it = iter(t): v0 is read, and a map over the THAMT of entries is made
DIterNew ==
    /\ mode = "dict" /\ scen = "iter"
    /\ it' = NewIter(t.els, t.version)
    /\ last' = NoLast
    /\ UNCHANGED lazyvars
    /\ UNCHANGED <<mode, scen, univ, heap, p, t, ref, pref, held, src>>

\* next(it): the traversal produces its next entry, or ends; _iter_key runs on
\* an entry produced and compares v0 with the version.
DIterNext ==
    /\ mode = "dict" /\ scen = "iter" /\ it.active /\ it.out # "stop"
    /\ \E view \in {it.snap, t.els} :
        LET k == NextSlot(view, it.pos)
        IN it' = IF k = NoSlot THEN [it EXCEPT !.out = "stop", !.trap = it.struct]
                 ELSE IF it.v0 < t.version
                 THEN [it EXCEPT !.out = "error", !.pos = k, !.trap = it.struct]
                 ELSE [it EXCEPT !.out = "yield", !.val = view[k].k, !.pos = k,
                                 !.trap = it.struct]
    /\ last' = NoLast
    /\ UNCHANGED lazyvars
    /\ UNCHANGED <<mode, scen, univ, heap, p, t, ref, pref, held, src>>

NextDict == DSet \/ DDrop \/ DDelete \/ DPop \/ DTransient \/ DPersistent
NextDictHold == NextDict \/ DHold
NextDictIter == NextDict \/ DIterNew \/ DIterNext

InitDict == StartDict /\ scen = "plain" /\ univ = Elems
SpecDict == InitDict /\ [][NextDict]_vars

InitDictIter == StartDict /\ scen = "iter" /\ univ = FewElems
SpecDictIter == InitDictIter /\ [][NextDictIter]_vars

(* ------------------ clearing a tdict that is iterated ------------------ *)
\* clear() gives t new THAMTs: an iterator made before keeps the map over the
\* THAMT of entries that t had, as it was when clear() ran.
IterCleared == it.active /\ "old" \in DOMAIN it

\* clear() on the pdict, t.clear() on the tdict, once under an iterator
DClear ==
    /\ mode = "dict" /\ scen = "iter" /\ it.active /\ ~IterCleared
    /\ p' = EmptyId
    /\ t' = tdict_clear(t)
    /\ ref' = <<>>
    /\ pref' = <<>>
    /\ last' = [NoLast EXCEPT !.op = "clear"]
    /\ src' = NoneId
    /\ heap' = Collect(heap, Roots(EmptyId, t', held))
    /\ it' = [old |-> t.els] @@
               [it EXCEPT !.out = IF it.out = "stop" THEN "stop" ELSE "",
                          !.struct = it.struct \/ ref # <<>>]
    /\ UNCHANGED lazyvars
    /\ UNCHANGED <<mode, scen, univ, held>>

\* it = iter(t), until the tdict is cleared
DIterNewKept == DIterNew /\ ~IterCleared

\* next(it) on an iterator whose tdict was not cleared since
DIterNextKept == DIterNext /\ ~IterCleared

\* next(it) on an iterator made before a clear(): the traversal walks the THAMT
\* the tdict had; _iter_key compares v0 with the version the tdict has now
DIterNextCleared ==
    /\ mode = "dict" /\ scen = "iter" /\ IterCleared /\ it.out # "stop"
    /\ \E view \in {it.snap, it.old} :
        LET k == NextSlot(view, it.pos)
        IN it' = IF k = NoSlot THEN [it EXCEPT !.out = "stop", !.trap = it.struct]
                 ELSE IF it.v0 < t.version
                 THEN [it EXCEPT !.out = "error", !.pos = k, !.trap = it.struct]
                 ELSE [it EXCEPT !.out = "yield", !.val = view[k].k, !.pos = k,
                                 !.trap = it.struct]
    /\ last' = NoLast
    /\ UNCHANGED lazyvars
    /\ UNCHANGED <<mode, scen, univ, heap, p, t, ref, pref, held, src>>

InitDictClear == StartDict /\ scen = "iter" /\ univ = FewElems
NextDictClear ==
    DSet \/ DDelete \/ DIterNewKept \/ DIterNextKept \/ DClear \/ DIterNextCleared
SpecDictClear == InitDictClear /\ [][NextDictClear]_vars

(* ------------------------------- lazy --------------------------------- *)
\* no container is involved
NoCont ==
    /\ scen = "plain" /\ univ = {} /\ heap = <<>> /\ p = NoneId /\ t = <<>>
    /\ ref = <<>> /\ pref = <<>> /\ held = <<>> /\ last = NoLast /\ src = NoneId
    /\ it = NoIter

\* lazy(counter, inc): partial is set (pending), value is None (0)
lazy_new(inc) == [pending |-> TRUE, value |-> 0, inc |-> inc, calls |-> 0]

\* exc is the exception the thread is raising or has got from its last call;
\* threw and fails record whether / how often the thunk raised in its calls
Idle == [pc |-> "idle", part |-> "", val |-> 0, ret |-> 0, n |-> 0, exc |-> "",
         threw |-> FALSE, fails |-> 0]

\* after rlock.acquire(): the cell is looked at again, and the thunk is skipped when
\* it was evaluated meanwhile
AfterAcquire_no_recheck(c) == "l96"

AfterAcquire(c) == IF ~c.pending THEN "l94" ELSE "l96"

\* the cell every thread invokes
TheCell == 1

StartLazy ==
    /\ mode = "lazy"
    /\ NoCont
    /\ \E inc \in Incs : cells = <<lazy_new(inc)>>
    /\ lock = <<[owner |-> 0, depth |-> 0]>>
    /\ thr = [th \in 1..NumThreads |-> Idle]
    /\ count = 0
    /\ ll = [phamt |-> <<>>, start |-> 0]
    /\ rd = [op |-> "none"]

\* an exit path that leaves the lock as it is
rlock_kept(l) == l

\* rlock.release() by the owner
rlock_release(l) == [owner |-> IF l.depth = 1 THEN 0 ELSE l.owner, depth |-> l.depth - 1]

\* a thread's step in lazy.__call__: its own record and, maybe, the cell change
ThreadStep(th, r) ==
    /\ thr' = [thr EXCEPT ![th] = r]
    /\ UNCHANGED <<mode, contvars, ll, rd>>

\* a thread calls the cell
LzInvoke ==
    /\ mode = "lazy"
    /\ \E th \in DOMAIN thr :
        /\ thr[th].pc = "idle" /\ thr[th].n < MaxInvoke
        /\ ThreadStep(th, [thr[th] EXCEPT !.pc = "l84", !.exc = "", !.threw = FALSE])
        /\ UNCHANGED <<cells, lock, count>>

\* part = self.partial; if part is None
LzReadPartial ==
    /\ mode = "lazy"
    /\ \E th \in DOMAIN thr :
        /\ thr[th].pc = "l84"
        /\ ThreadStep(th, [thr[th] EXCEPT
                             !.part = IF cells[TheCell].pending THEN "tuple" ELSE "none",
                             !.pc = IF cells[TheCell].pending THEN "l91" ELSE "l86"])
        /\ UNCHANGED <<cells, lock, count>>

\* return self.value
LzFastReturn ==
    /\ mode = "lazy"
    /\ \E th \in DOMAIN thr :
        /\ thr[th].pc = "l86"
        /\ ThreadStep(th, [thr[th] EXCEPT !.ret = cells[TheCell].value, !.pc = "idle",
                                          !.n = @ + 1])
        /\ UNCHANGED <<cells, lock, count>>

\* rlock.acquire(): waits while another thread owns the lock
LzAcquire ==
    /\ mode = "lazy"
    /\ \E th \in DOMAIN thr :
        /\ thr[th].pc = "l91"
        /\ lock[TheCell].owner \in {0, th}
        /\ lock' = [lock EXCEPT ![TheCell] = [owner |-> th, depth |-> @.depth + 1]]
        /\ ThreadStep(th, [thr[th] EXCEPT !.pc = "l93"])
        /\ UNCHANGED <<cells, count>>

\* if self.partial is None
LzRecheck ==
    /\ mode = "lazy"
    /\ \E th \in DOMAIN thr :
        /\ thr[th].pc = "l93"
        /\ ThreadStep(th, [thr[th] EXCEPT !.pc = AfterAcquire(cells[TheCell])])
        /\ UNCHANGED <<cells, lock, count>>

\* val = self.value
LzReadValue ==
    /\ mode = "lazy"
    /\ \E th \in DOMAIN thr :
        /\ thr[th].pc = "l94"
        /\ ThreadStep(th, [thr[th] EXCEPT !.val = cells[TheCell].value, !.pc = "l101"])
        /\ UNCHANGED <<cells, lock, count>>

\* val = part(): the thunk adds to the counter and returns it
LzThunk ==
    /\ mode = "lazy"
    /\ \E th \in DOMAIN thr :
        /\ thr[th].pc = "l96"
        /\ count' = count + cells[TheCell].inc
        /\ cells' = [cells EXCEPT ![TheCell].calls = @ + 1]
        /\ ThreadStep(th, [thr[th] EXCEPT !.val = count', !.pc = "l99"])
        /\ UNCHANGED lock

\* the two stores that publish a result, the ready flag first
publish_flag_first(c, val, line) ==
    IF line = 99 THEN [c EXCEPT !.pending = FALSE] ELSE [c EXCEPT !.value = val]

\* line 99: object.__setattr__(self, 'value', val)
\* line 100: object.__setattr__(self, 'partial', None)
publish(c, val, line) ==
    IF line = 99 THEN [c EXCEPT !.value = val] ELSE [c EXCEPT !.pending = FALSE]

\* object.__setattr__(self, 'value', val)
LzSetValue ==
    /\ mode = "lazy"
    /\ \E th \in DOMAIN thr :
        /\ thr[th].pc = "l99"
        /\ cells' = [cells EXCEPT ![TheCell] = publish(@, thr[th].val, 99)]
        /\ ThreadStep(th, [thr[th] EXCEPT !.pc = "l100"])
        /\ UNCHANGED <<lock, count>>

\* object.__setattr__(self, 'partial', None)
LzSetPartial ==
    /\ mode = "lazy"
    /\ \E th \in DOMAIN thr :
        /\ thr[th].pc = "l100"
        /\ cells' = [cells EXCEPT ![TheCell] = publish(@, thr[th].val, 100)]
        /\ ThreadStep(th, [thr[th] EXCEPT !.pc = "l101"])
        /\ UNCHANGED <<lock, count>>

\* return val, through finally: rlock.release()
LzReturn ==
    /\ mode = "lazy"
    /\ \E th \in DOMAIN thr :
        /\ thr[th].pc = "l101"
        /\ lock' = [lock EXCEPT ![TheCell] = rlock_release(@)]
        /\ ThreadStep(th, [thr[th] EXCEPT !.ret = thr[th].val, !.pc = "idle", !.n = @ + 1])
        /\ UNCHANGED <<cells, count>>

\* val = part(): the thunk raises an Exception, and has added nothing
LzThunkRaises ==
    /\ mode = "lazy"
    /\ \E th \in DOMAIN thr :
        /\ thr[th].pc = "l96"
        /\ cells' = [cells EXCEPT ![TheCell].calls = @ + 1]
        /\ ThreadStep(th, [thr[th] EXCEPT !.exc = "partial_eror", !.threw = TRUE,
                                          !.fails = @ + 1, !.pc = "l105"])
        /\ UNCHANGED <<lock, count>>

\* what the handler raises: the error made in lazy.__new__, whatever was caught
init_error_or_caught(partial_eror) == partial_eror

init_error(partial_eror) == "init_error"

\* except Exception as partial_eror: raise init_error
LzExcept ==
    /\ mode = "lazy"
    /\ \E th \in DOMAIN thr :
        /\ thr[th].pc = "l105"
        /\ ThreadStep(th, [thr[th] EXCEPT !.exc = init_error(thr[th].exc), !.pc = "l107"])
        /\ UNCHANGED <<cells, lock, count>>

\* finally: rlock.release(), and the exception leaves the call
LzFinally ==
    /\ mode = "lazy"
    /\ \E th \in DOMAIN thr :
        /\ thr[th].pc = "l107"
        /\ lock' = [lock EXCEPT ![TheCell] = rlock_release(@)]
        /\ ThreadStep(th, [thr[th] EXCEPT !.pc = "idle", !.n = @ + 1])
        /\ UNCHANGED <<cells, count>>

InitLazy == StartLazy
NextLazy ==
    \/ LzInvoke \/ LzReadPartial \/ LzFastReturn \/ LzAcquire \/ LzRecheck
    \/ LzReadValue \/ LzThunk \/ LzSetValue \/ LzSetPartial \/ LzReturn
SpecLazy == InitLazy /\ [][NextLazy]_vars

\* the same threads, with a thunk that may raise
InitLazyFail == StartLazy
NextLazyFail == NextLazy \/ LzThunkRaises \/ LzExcept \/ LzFinally
SpecLazyFail == InitLazyFail /\ [][NextLazyFail]_vars

\* a step of thread th inside a call of the cell
LzStep(th) == NextLazyFail /\ thr[th].pc # "idle" /\ thr'[th] # thr[th]

\* the same, with every thread that is inside a call scheduled again and again
InitLazyLive == StartLazy
NextLazyLive == NextLazy \/ LzThunkRaises \/ LzExcept \/ LzFinally
SpecLazyLive ==
    InitLazyLive /\ [][NextLazyLive]_vars /\ \A th \in 1..NumThreads : WF_vars(LzStep(th))

(* ------------------ a thunk that invokes its own cell ------------------ *)
\* One thread; thr is its stack of calls of the cell, the innermost last.  The
\* thunk of kind "self" always invokes its cell; the thunk of kind "maybe"
\* invokes its cell or adds to the counter and returns it.
Frame(pc) == [pc |-> pc, val |-> 0, exc |-> ""]

Me == 1

StartReenter ==
    /\ mode = "reenter"
    /\ NoCont
    /\ \E inc \in Incs : cells = <<lazy_new(inc)>>
    /\ lock = <<[owner |-> 0, depth |-> 0]>>
    /\ thr = <<>>
    /\ count = 0
    /\ ll = [phamt |-> <<>>, start |-> 0]
    /\ \E kind \in {"self", "maybe"} :
        rd = [op |-> "reenter", kind |-> kind, n |-> 0, out |-> "", ret |-> 0, exc |-> ""]

Top == thr[Len(thr)]
SetTop(f) == [thr EXCEPT ![Len(thr)] = f]
At(pc) == mode = "reenter" /\ thr # <<>> /\ Top.pc = pc
ReenterSame == UNCHANGED <<mode, contvars, ll>>

\* the innermost call returns v: to the thunk that made it, which returns v
\* in turn (line 96 of the call below), or to the caller
ReturnTo(v) ==
    IF Len(thr) = 1
    THEN /\ thr' = <<>>
         /\ rd' = [rd EXCEPT !.out = "returned", !.ret = v, !.n = @ + 1]
    ELSE /\ thr' = [SubSeq(thr, 1, Len(thr) - 1) EXCEPT
                        ![Len(thr) - 1] = [@ EXCEPT !.val = v, !.pc = "l99"]]
         /\ UNCHANGED rd

\* the innermost call raises e: through the thunk that made it (line 96 of
\* the call below, inside its try), or to the caller
RaiseTo(e) ==
    IF Len(thr) = 1
    THEN /\ thr' = <<>>
         /\ rd' = [rd EXCEPT !.out = "raised", !.exc = e, !.n = @ + 1]
    ELSE /\ thr' = [SubSeq(thr, 1, Len(thr) - 1) EXCEPT
                        ![Len(thr) - 1] = [@ EXCEPT !.exc = e, !.pc = "l105"]]
         /\ UNCHANGED rd

\* the caller invokes the cell
RCall ==
    /\ mode = "reenter" /\ thr = <<>> /\ rd.n < MaxInvoke
    /\ thr' = <<Frame("l84")>>
    /\ rd' = [rd EXCEPT !.out = "", !.exc = ""]
    /\ UNCHANGED <<cells, lock, count>> /\ ReenterSame

\* part = self.partial; if part is None
RReadPartial ==
    /\ At("l84")
    /\ thr' = SetTop([Top EXCEPT !.pc = IF cells[TheCell].pending THEN "l91" ELSE "l86"])
    /\ UNCHANGED <<cells, lock, count, rd>> /\ ReenterSame

\* return self.value
RFastReturn ==
    /\ At("l86")
    /\ ReturnTo(cells[TheCell].value)
    /\ UNCHANGED <<cells, lock, count>> /\ ReenterSame

\* rlock.acquire(): the lock is free or this thread's own
RAcquire ==
    /\ At("l91")
    /\ lock[TheCell].owner \in {0, Me}
    /\ lock' = [lock EXCEPT ![TheCell] = [owner |-> Me, depth |-> @.depth + 1]]
    /\ thr' = SetTop([Top EXCEPT !.pc = "l93"])
    /\ UNCHANGED <<cells, count, rd>> /\ ReenterSame

\* if self.partial is None: with one thread nothing has run since line 84
\* found the cell pending, so the branch of line 94 is never taken here
RRecheck ==
    /\ At("l93")
    /\ thr' = SetTop([Top EXCEPT !.pc = AfterAcquire(cells[TheCell])])
    /\ UNCHANGED <<cells, lock, count, rd>> /\ ReenterSame

\* val = part(): the thunk invokes the cell, or there is no room for the call
RThunkReenters ==
    /\ At("l96")
    /\ cells' = [cells EXCEPT ![TheCell].calls = @ + 1]
    /\ thr' = IF Len(thr) < StackLimit
              THEN Append(SetTop([Top EXCEPT !.pc = "thunk"]), Frame("l84"))
              ELSE SetTop([Top EXCEPT !.exc = "RecursionError", !.pc = "l105"])
    /\ UNCHANGED <<lock, count, rd>> /\ ReenterSame

\* val = part(): the thunk adds to the counter and returns it
RThunkReturns ==
    /\ At("l96") /\ rd.kind = "maybe"
    /\ cells' = [cells EXCEPT ![TheCell].calls = @ + 1]
    /\ count' = count + cells[TheCell].inc
    /\ thr' = SetTop([Top EXCEPT !.val = count', !.pc = "l99"])
    /\ UNCHANGED <<lock, rd>> /\ ReenterSame

RSetValue ==
    /\ At("l99")
    /\ cells' = [cells EXCEPT ![TheCell] = publish(@, Top.val, 99)]
    /\ thr' = SetTop([Top EXCEPT !.pc = "l100"])
    /\ UNCHANGED <<lock, count, rd>> /\ ReenterSame

RSetPartial ==
    /\ At("l100")
    /\ cells' = [cells EXCEPT ![TheCell] = publish(@, Top.val, 100)]
    /\ thr' = SetTop([Top EXCEPT !.pc = "l101"])
    /\ UNCHANGED <<lock, count, rd>> /\ ReenterSame

\* return val, through finally: rlock.release()
RReturn ==
    /\ At("l101")
    /\ lock' = [lock EXCEPT ![TheCell] = rlock_release(@)]
    /\ ReturnTo(Top.val)
    /\ UNCHANGED <<cells, count>> /\ ReenterSame

\* except Exception as partial_eror: raise init_error
RExcept ==
    /\ At("l105")
    /\ thr' = SetTop([Top EXCEPT !.exc = init_error(Top.exc), !.pc = "l107"])
    /\ UNCHANGED <<cells, lock, count, rd>> /\ ReenterSame

\* finally: rlock.release(), and the exception leaves the call
RFinally ==
    /\ At("l107")
    /\ lock' = [lock EXCEPT ![TheCell] = rlock_release(@)]
    /\ RaiseTo(Top.exc)
    /\ UNCHANGED <<cells, count>> /\ ReenterSame

InitReenter == StartReenter
NextReenter ==
    \/ RCall \/ RReadPartial \/ RFastReturn \/ RAcquire \/ RRecheck
    \/ RThunkReenters \/ RThunkReturns \/ RSetValue \/ RSetPartial \/ RReturn
    \/ RExcept \/ RFinally
SpecReenter == InitReenter /\ [][NextReenter]_vars

(* ------------------------ ldict and tldict ---------------------------- *)
\* ldict.transient: a tldict on the stores of the mapping, that remembers it
ldict_transient(h, self) == tdict_new(h[self].els, h[self].idx, h[self].top, self)

\* tldict.persistent: "if len(self._thamt) == 0" reads an attribute that a
\* tldict (slots _els, _idx, _top, _version, _orig) does not have
tldict_persistent(h, td) == Raise(h, NoneId, "AttributeError")

\* tldict.pop: "return unlazy(self.pop(*args))" calls itself until the
\* interpreter gives up; the mapping is not touched
tldict_pop(td, key) == TRaise(td, "RecursionError")

(* ---------------------- building from an iterable --------------------- *)
\* plist(arg) for an iterable arg that is no plist / tlist
plist_construct(h, arg) ==
    LET phamt == [ii \in 0..(Len(arg) - 1) |-> arg[ii + 1]]
    IN IF HLen(phamt) = 0 THEN Ok(h, EmptyId) ELSE plist_new(h, phamt, 0)

\* TransientSet.addall
RECURSIVE tset_addall(_, _)
tset_addall(ts, arg) ==
    IF arg = <<>> THEN ts ELSE tset_addall(tset_add(ts, Head(arg)).t, Tail(arg))

\* pset(arg) for an iterable arg that is no pset / tset
pset_construct(h, arg) == tset_persistent(h, tset_addall(tset_empty, arg))

\* tdict(arg) for an iterable arg of (k, v) pairs
RECURSIVE tdict_construct(_, _)
tdict_construct(obj, arg) ==
    IF arg = <<>> THEN obj
    ELSE tdict_construct(tdict_setitem(obj, Head(arg)[1], Head(arg)[2]).t, Tail(arg))

\* pdict(arg) / ldict(arg) for an arg that is no pdict / tdict
pdict_construct(h, arg) ==
    LET tt == tdict_construct(tdict_empty, arg)
    IN pdict_new(h, tt.els, tt.idx, tt.top)

(* ------------------------------- llist -------------------------------- *)
\* lazy.__call__ run by the only thread there is
lazy_call_uncached(cs, cnt, c) ==
    LET v == cnt + cs[c].inc
    IN [cells |-> [cs EXCEPT ![c].value = v, ![c].calls = @ + 1], count |-> v, val |-> v]

lazy_call(cs, cnt, c) ==
    IF ~cs[c].pending THEN [cells |-> cs, count |-> cnt, val |-> cs[c].value]
    ELSE LET v == cnt + cs[c].inc
         IN [cells |-> [cs EXCEPT ![c] = [@ EXCEPT !.pending = FALSE, !.value = v,
                                                   !.calls = @ + 1]],
             count |-> v, val |-> v]

\* An element of the list: a lazy cell, or a plain value
Cell(c) == [lazy |-> TRUE, cell |-> c, v |-> 0]
Plain(v) == [lazy |-> FALSE, cell |-> 0, v |-> v]

\* u() if isinstance(u, lazy) else u
unlazy(cs, cnt, u) ==
    IF u.lazy THEN lazy_call(cs, cnt, u.cell) ELSE [cells |-> cs, count |-> cnt, val |-> u.v]

\* llist.__getitem__
llist_getitem(l, cs, cnt, k) ==
    LET el == plist_getitem(l, k)
    IN IF el.exc # "" THEN [cells |-> cs, count |-> cnt, val |-> 0, exc |-> el.exc]
       ELSE unlazy(cs, cnt, el.val) @@ [exc |-> ""]

\* llist(arg): the elements get the slots 0, 1, ... and nothing is invoked
llist_new(els) == [phamt |-> [i \in 0..(Len(els) - 1) |-> els[i + 1]], start |-> 0]

\* llist.transient: a tllist on the same store, that remembers the list
llist_transient(l) == tlist_new(l.phamt, l.start, <<l>>)

\* tllist.__getitem__: ret is the object handed to the caller
tllist_getitem(tl, cs, cnt, k) ==
    LET el == tlist_getitem(tl, k)
    IN IF el.exc # ""
       THEN [cells |-> cs, count |-> cnt, val |-> 0, exc |-> el.exc, ret |-> Plain(0)]
       ELSE LET r == unlazy(cs, cnt, el.val)
            IN r @@ [exc |-> "", ret |-> Plain(r.val)]

\* tllist.getlazy
tllist_getlazy(tl, k) == tlist_getitem(tl, k)

\* llist(t) for a tllist t: plist.__new__ makes a list on the transient's store
llist_of_transient(tl) ==
    IF HLen(tl.thamt) = 0 THEN llist_new(<<>>) ELSE [phamt |-> tl.thamt, start |-> tl.start]

\* The persistent list an edit of a lazy list returns: cls is the class it is
\* made with ("llist" by self._new, "plist" by plist._new and for plist.empty),
\* canon says that it is the one empty object of that class.
Made(cls, phamt, start) ==
    [cls |-> cls, phamt |-> phamt, start |-> start, canon |-> FALSE, exc |-> ""]

\* plist.delete, inherited by llist
llist_delete(l, index0) ==
    LET phamt == l.phamt
        n == HLen(phamt)
        st == l.start
        index == IF index0 < 0 THEN index0 + n ELSE index0
    IN IF n = 0 \/ index0 >= n \/ index0 < -n
       THEN [Made("llist", phamt, st) EXCEPT !.exc = "IndexError"]
       ELSE IF index = 0
       THEN IF n = 1 THEN [Made("plist", EmptyHamt, 0) EXCEPT !.canon = TRUE]
            ELSE Made("plist", HDissoc(phamt, st), st + 1)
       ELSE IF index = n - 1 THEN Made("plist", HDissoc(phamt, st + index), st)
       ELSE IF n - index <= index
       THEN Made("llist",
                 HDissoc(CopyFrom(phamt, phamt, index + st + 1, n + st, -1), n + st - 1), st)
       ELSE Made("llist", HDissoc(CopyFrom(phamt, phamt, st, index + st, 1), st), st + 1)

\* plist.set, plist.append and plist.prepend, inherited by llist: self._new
llist_set(l, index0, obj) ==
    LET n == HLen(l.phamt)
        index == (IF index0 < 0 THEN index0 + n ELSE index0) + l.start
    IN IF index0 < -n \/ index0 >= n
       THEN [Made("llist", l.phamt, l.start) EXCEPT !.exc = "IndexError"]
       ELSE Made("llist", HAssoc(l.phamt, index, obj), l.start)

llist_append(l, obj) == Made("llist", HAssoc(l.phamt, l.start + HLen(l.phamt), obj), l.start)

llist_prepend(l, obj) == Made("llist", HAssoc(l.phamt, l.start - 1, obj), l.start - 1)

\* o[k] for the list an edit returned: llist.__getitem__ calls a cell,
\* plist.__getitem__ hands out what the slot holds
made_getitem(o, cs, cnt, k) ==
    LET el == plist_getitem(o, k)
    IN IF o.cls = "llist" THEN llist_getitem(o, cs, cnt, k) @@ [ret |-> Plain(0)]
       ELSE [cells |-> cs, count |-> cnt, val |-> 0, exc |-> el.exc, ret |-> el.val]

\* What a loop over a PHAMT yields: the pairs (key, value), in key order
HItems(m) ==
    LET ks == KeysInOrder(DOMAIN m) IN [i \in 1..Len(ks) |-> [key |-> ks[i], val |-> m[ks[i]]]]

\* isinstance(el, lazy), for an element of a list or a pair a PHAMT yields
IsLazy(el) == "lazy" \in DOMAIN el /\ el.lazy

\* "if isinstance(v, lazy): v()" for each v of vs in turn
RECURSIVE ReadyEach(_, _, _)
ReadyEach(vs, cs, cnt) ==
    IF vs = <<>> THEN [cells |-> cs, count |-> cnt]
    ELSE IF IsLazy(Head(vs))
         THEN LET r == lazy_call(cs, cnt, Head(vs).cell) IN ReadyEach(Tail(vs), r.cells, r.count)
         ELSE ReadyEach(Tail(vs), cs, cnt)

\* llist.ready_all: "for el in self._phamt" takes el from the pairs
llist_ready_all(l, cs, cnt) == ReadyEach(HItems(l.phamt), cs, cnt) @@ [ret |-> l]

\* ldict.ready_all: "for arg in self._els: (k, v) = arg[1][0]"
ldict_ready_all(d, cs, cnt) ==
    LET args == HItems(d.els)
    IN ReadyEach([i \in DOMAIN args |-> args[i].val.v], cs, cnt) @@ [ret |-> d]

\* ldict(enumerate(els)): the lazy mapping from each index to its element
ldict_new(els) ==
    LET tt == tdict_construct(tdict_empty, [i \in DOMAIN els |-> <<i - 1, els[i]>>])
    IN [els |-> tt.els, idx |-> tt.idx, top |-> tt.top]

\* The lists explored: each element is a plain value or its own pending cell.
Shapes == UNION {[1..n -> Incs \cup {0}] : n \in 1..MaxCells}

StartLList ==
    /\ mode = "llist"
    /\ NoCont
    /\ \E sh \in Shapes :
        /\ cells = [i \in DOMAIN sh |-> lazy_new(sh[i])]
        /\ ll = llist_new([i \in DOMAIN sh |-> IF sh[i] = 0 THEN Plain(5) ELSE Cell(i)])
    /\ lock = <<>>
    /\ thr = <<>>
    /\ count = 0
    /\ rd = [op |-> "new", k |-> 0, val |-> 0, exc |-> "", changed |-> {}, was |-> FALSE,
             pos |-> -1, out |-> <<>>]

Changed(cs) == {c \in DOMAIN cells : cs[c] # cells[c]}
WasPending(u) == u.lazy /\ cells[u.cell].pending

\* l[k], for the indices in range and one on each side out of range
LLGetItem ==
    /\ mode = "llist"
    /\ \E k \in (-HLen(ll.phamt) - 1)..HLen(ll.phamt) :
        LET r == llist_getitem(ll, cells, count, k)
            j == IF k < 0 THEN k + HLen(ll.phamt) ELSE k
        IN /\ cells' = r.cells
           /\ count' = r.count
           /\ rd' = [rd EXCEPT !.op = "get", !.k = j, !.val = r.val, !.exc = r.exc,
                               !.changed = Changed(r.cells),
                               !.was = r.exc = "" /\ WasPending(ll.phamt[j + ll.start])]
    /\ UNCHANGED <<mode, contvars, lock, thr, ll>>

\* it = iter(l): a map over the raw elements
LLIterNew ==
    /\ mode = "llist"
    /\ rd' = [rd EXCEPT !.op = "iter", !.pos = 0, !.out = <<>>, !.changed = {},
                        !.was = FALSE, !.exc = ""]
    /\ UNCHANGED <<mode, contvars, cells, lock, thr, count, ll>>

\* next(it): the next raw element, reified
LLIterNext ==
    /\ mode = "llist"
    /\ rd.pos >= 0 /\ rd.pos < HLen(ll.phamt)
    /\ LET u == plist_iter(ll)[rd.pos + 1]
           r == unlazy(cells, count, u)
       IN /\ cells' = r.cells
          /\ count' = r.count
          /\ rd' = [rd EXCEPT !.op = "next", !.k = rd.pos, !.val = r.val, !.exc = "",
                              !.changed = Changed(r.cells), !.was = WasPending(u),
                              !.pos = rd.pos + 1, !.out = Append(rd.out, r.val)]
    /\ UNCHANGED <<mode, contvars, lock, thr, ll>>

InitLList == StartLList
NextLList == LLGetItem \/ LLIterNew \/ LLIterNext
SpecLList == InitLList /\ [][NextLList]_vars

(* ----------------------- the three families -------------------------- *)
\* What is observed through a persistent value: its elements (items) in
\* iteration order
ViewOf(o) ==
    IF mode = "list" THEN plist_iter(o)
    ELSE IF mode = "set" THEN set_iter(o.els)
    ELSE dict_items(o.els)

TViewOf(tt) ==
    IF mode = "list" THEN tlist_iter(tt)
    ELSE IF mode = "set" THEN set_iter(tt.els)
    ELSE dict_items(tt.els)

\* t.persistent()
Persistent(h, tt) ==
    IF mode = "list" THEN tlist_persistent(h, tt)
    ELSE IF mode = "set" THEN tset_persistent(h, tt)
    ELSE tdict_persistent(h, tt)

StartAny == StartList \/ StartSet \/ StartDict

\* the caller keeps values published earlier and goes on editing
InitHold == StartAny /\ scen = "hold" /\ (mode # "list" => univ = FewElems)
NextHold == NextListHold \/ NextSetHold \/ NextDictHold
SpecHold == InitHold /\ [][NextHold]_vars

\* sets and dicts over elements of which two have the same hash
InitColl == (StartSet \/ StartDict) /\ scen = "plain" /\ univ = CollElems
NextColl == NextSet \/ NextDict
SpecColl == InitColl /\ [][NextColl]_vars

\* sets over three elements with one hash, and one with another
InitChain == StartSet /\ scen = "plain" /\ univ = ChainElems
NextChain == SAdd \/ SDiscard \/ SRemove \/ STransient \/ SPersistent
SpecChain == InitChain /\ [][NextChain]_vars

\* sets and dicts over colliding elements, with pops that give a default
InitMissing == (StartSet \/ StartDict) /\ scen = "plain" /\ univ = CollElems
NextMissing == NextSet \/ NextDict \/ DPopDefault
SpecMissing == InitMissing /\ [][NextMissing]_vars

\* the three families, edited in lockstep
Init == StartAny /\ scen = "plain" /\ (mode # "list" => univ = Elems)
Next == NextList \/ NextSet \/ NextDict
Spec == Init /\ [][Next]_vars

\* the three families, sets and dicts over elements of which two have the same hash
InitAny == StartAny /\ scen = "plain" /\ (mode # "list" => univ = CollElems)
NextAny == NextList \/ NextSet \/ NextDict
SpecAny == InitAny /\ [][NextAny]_vars

(* ------------------------------properties-------------------------------- *)
\* C1: a persistent list, set or mapping never changes.  Every value the caller
\* kept (the value the edits started from, or one an earlier persistent()
\* returned) still exists and shows the length, the elements and the iteration
\* order observed when it was kept, whatever persistent edits and in-place
\* mutations of the transient came after.
C1_PersistentNeverChanges ==
    \A i \in DOMAIN held :
        /\ held[i].id \in DOMAIN heap
        /\ ViewOf(heap[held[i].id]) = held[i].view

\* a kept, non-empty value; the persistent edits and the mutated transient have
\* both moved on from it
C1_Witness ==
    /\ held # <<>>
    /\ held[1].view # <<>>
    /\ held[1].id # p
    /\ t.orig = NoneId
    /\ ViewOf(heap[p]) # held[1].view
    /\ TViewOf(t) # held[1].view

\* C2: round trip.  Right after t = p.transient(), with no mutation applied to
\* t, t.persistent() returns a value equal to p and is the object p itself.
C2_RoundTrip ==
    src # NoneId =>
        LET r == Persistent(heap, t)
        IN ViewOf(r.heap[r.id]) = ViewOf(heap[src]) /\ r.id = src

\* C3: list refinement.  After any sequence of append, prepend, insert, pop
\* and set applied in lockstep, the plist, the tlist and the reference sequence
\* hold the same elements in the same order (by iteration and by index), every
\* pop returned the reference's element in both, and tlist.persistent() equals
\* the plist.
C3_ListRefinement ==
    /\ plist_iter(heap[p]) = ref
    /\ tlist_iter(t) = ref
    /\ HLen(heap[p].phamt) = Len(ref) /\ HLen(t.thamt) = Len(ref)
    /\ \A i \in 0..(Len(ref) - 1) :
        /\ plist_getitem(heap[p], i) = [exc |-> "", val |-> ref[i + 1]]
        /\ tlist_getitem(t, i) = [exc |-> "", val |-> ref[i + 1]]
    /\ last.op = "pop" => last.agree /\ last.pexc = "" /\ last.texc = ""
    /\ LET r == tlist_persistent(heap, t)
       IN plist_iter(r.heap[r.id]) = plist_iter(heap[p])

\* a pop from a list of four that left both origins moved off 0
C3_Witness ==
    /\ last.op = "pop"
    /\ Len(ref) = 3
    /\ ref[1] # ref[2]
    /\ heap[p].start # 0
    /\ t.start # 0

\* C4: set refinement over elements with pairwise distinct hashes.  After any
\* sequence of add, discard and remove applied in lockstep, the pset, the tset
\* and the reference set have the same members; remove raised KeyError in
\* both exactly when the element was not a member; tset.persistent() equals
\* the pset.
C4_SetRefinement ==
    /\ pref = ref
    /\ Range(set_iter(heap[p].els)) = Range(ref)
    /\ Range(set_iter(t.els)) = Range(ref)
    /\ HLen(heap[p].els) = Len(ref) /\ HLen(t.els) = Len(ref)
    /\ \A v \in univ :
        /\ set_contains(heap[p], v) = (v \in Range(ref))
        /\ set_contains(t, v) = (v \in Range(ref))
    /\ last.pexc \in {"", "KeyError"} /\ last.texc = last.pexc
    /\ last.op = "remove" => last.agree
    /\ LET r == tset_persistent(heap, t)
       IN Range(set_iter(r.heap[r.id].els)) = Range(set_iter(heap[p].els))

\* remove of an absent element raised KeyError in both, with members left and
\* a slot freed before
C4_Witness ==
    /\ mode = "set"
    /\ last.op = "remove"
    /\ last.pexc = "KeyError" /\ last.texc = "KeyError"
    /\ Len(ref) = 2
    /\ t.top > 2

\* the key-value function a sequence of items stands for
ItemSet(l) == {<<l[i].k, l[i].v>> : i \in DOMAIN l}

\* C5: mapping refinement over keys with pairwise distinct hashes.  After any
\* sequence of set, pop and drop / delete applied in lockstep, the pdict, the
\* tdict and the reference map the same keys to the same values; every pop of
\* a present key returned the reference's value in both; tdict.persistent()
\* equals the pdict.
C5_MappingRefinement ==
    /\ pref = ref
    /\ ItemSet(dict_items(heap[p].els)) = ItemSet(ref)
    /\ ItemSet(dict_items(t.els)) = ItemSet(ref)
    /\ HLen(heap[p].els) = Len(ref) /\ HLen(t.els) = Len(ref)
    /\ \A k \in univ :
        LET e == IF k \in Keys(ref) THEN [exc |-> "", val |-> RefGet(ref, k)]
                 ELSE [exc |-> "KeyError", val |-> 0]
        IN dict_getitem(heap[p], k) = e /\ dict_getitem(t, k) = e
    /\ last.op = "pop" => last.agree
    /\ last.op = "pop" /\ last.texc = "" => last.pexc = ""
    /\ LET r == tdict_persistent(heap, t)
       IN ItemSet(dict_items(r.heap[r.id].els)) = ItemSet(dict_items(heap[p].els))

\* a pop of a present key, leaving two keys of which one was overwritten with 2
C5_Witness ==
    /\ mode = "dict"
    /\ last.op = "pop"
    /\ last.pexc = "" /\ last.texc = ""
    /\ Len(ref) = 2
    /\ ref[1].v = 2

\* C6: insertion order.  Iterating a pset / tset (pdict / tdict) yields exactly
\* the elements (keys) still present, in the order of their first successful
\* insertion: an add of a present element or an overwrite keeps the position, and
\* an element added again after its removal comes last.
C6_InsertionOrder ==
    /\ mode = "set" => set_iter(heap[p].els) = pref /\ set_iter(t.els) = ref
    /\ mode = "dict" =>
        /\ dict_iter(heap[p].els) = [i \in DOMAIN pref |-> pref[i].k]
        /\ dict_iter(t.els) = [i \in DOMAIN ref |-> ref[i].k]

\* more slots handed out than there are elements: one was removed and added
\* again; two are present, the later one with the smaller hash
C6_Witness ==
    /\ mode = "set"
    /\ t.top > Cardinality(univ)
    /\ Len(ref) = 2
    /\ Hash(ref[2]) < Hash(ref[1])
    /\ heap[p].top = t.top

\* C9: transient set version trap.  When an element that was not in t is added
\* after an iterator over t was made and advanced one step, the next step of
\* that iterator fails with the mutated-during-iteration error: it neither
\* yields an element nor ends.
C9_SetVersionTrap == mode = "set" /\ it.active /\ it.trap => it.out = "error"

\* C10: transient mapping iteration.  A step of a key iterator over a tdict
\* made after a new key was inserted, or a key deleted or popped, since the
\* iterator was created, fails with RuntimeError; a step fails only then, so
\* overwriting values of existing keys makes no step fail.
C10_DictIteration ==
    mode = "dict" /\ it.active /\ it.out # "" => (it.out = "error") = it.trap

\* C7: lazy once-only under concurrency.  With threads invoking one cell in any
\* interleaving, the thunk is invoked at most once, and exactly once as soon as
\* an invocation has returned; every invocation returned the result of that one
\* call; a ready cell holds that result.
C7_LazyOnce ==
    mode = "lazy" =>
        LET c == cells[TheCell]
        IN /\ c.calls <= 1
           /\ \A th \in DOMAIN thr : thr[th].n > 0 => thr[th].ret = c.inc /\ c.calls = 1
           /\ ~c.pending => c.value = c.inc /\ c.calls = 1 /\ count = c.inc

\* one thread has returned from the slow path; the other, which had read the
\* partial before, got the lock and found the cell ready
C7_Witness ==
    /\ mode = "lazy"
    /\ thr[1].n = 1 /\ thr[1].pc = "idle"
    /\ thr[2].pc = "l94" /\ thr[2].part = "tuple"
    /\ cells[TheCell].calls = 1

\* what reading element i of the lazy list gives: the value of its cell, or the
\* plain value
Reified(i) == LET u == ll.phamt[i + ll.start] IN IF u.lazy THEN cells[u.cell].value ELSE u.v

RECURSIVE SumIncs(_)
SumIncs(S) ==
    IF S = {} THEN 0 ELSE LET c == CHOOSE x \in S : TRUE IN cells[c].inc + SumIncs(S \ {c})

\* C8: lazy list transparency.  Building the list invokes no thunk; a read of
\* index i (by l[i] or by a step of an iterator) invokes the thunk of the cell at
\* i when that cell is pending and nothing else, so every thunk is invoked at
\* most once; reads return the reified value and an iterator yields the reified
\* values in order; with the cells lazy(counter, 1), lazy(counter, 10) read in
\* order the values are 1 and 11 and the counter ends at 11.
C8_LazyListTransparency ==
    mode = "llist" =>
        /\ \A c \in DOMAIN cells : cells[c].calls = (IF cells[c].pending THEN 0 ELSE 1)
        /\ count = SumIncs({c \in DOMAIN cells : ~cells[c].pending})
        /\ rd.op = "new" => count = 0 /\ \A c \in DOMAIN cells : cells[c].pending
        /\ rd.op \in {"get", "next"} /\ rd.exc = "" =>
            LET u == ll.phamt[rd.k + ll.start]
            IN /\ rd.val = Reified(rd.k)
               /\ rd.changed = (IF rd.was THEN {u.cell} ELSE {})
               /\ rd.was => rd.val = count
        /\ rd.exc # "" => rd.changed = {}
        /\ rd.pos >= 0 =>
            /\ Len(rd.out) = rd.pos
            /\ \A i \in 1..rd.pos : rd.out[i] = Reified(i - 1)
        /\ (/\ HLen(ll.phamt) = 2 /\ ll.phamt[0] = Cell(1) /\ ll.phamt[1] = Cell(2)
            /\ cells[1].inc = 1 /\ cells[2].inc = 10
            /\ cells[1].value = 1 /\ ~cells[2].pending)
           => cells[2].value = 11 /\ count = 11

\* the list of lazy(counter, 1), lazy(counter, 10): an iterator has yielded 1 and
\* then 11, the latter by the one call of the second thunk
C8_Witness ==
    /\ mode = "llist"
    /\ HLen(ll.phamt) = 2 /\ cells[1].inc = 1 /\ cells[2].inc = 10
    /\ rd.op = "next" /\ rd.out = <<1, 11>> /\ rd.was
    /\ count = 11

\* C11: for any persistent set p and any element v, also one whose hash equals
\* the hash of a different element of p, p.add(v) returns a set that contains v
\* and every element of p, of size len(p) + 1 when v was absent, and returns p
\* itself when v was present.
C11_AddPostcondition ==
    mode = "set" =>
        \A v \in univ :
            LET r == pset_add(heap, p, v)
                q == r.heap[r.id]
            IN /\ r.exc = ""
               /\ set_contains(q, v)
               /\ \A x \in Range(pref) : set_contains(q, x)
               /\ v \notin Range(pref) => HLen(q.els) = HLen(heap[p].els) + 1
               /\ v \in Range(pref) => r.id = p

\* an element of the set other than v that has the hash of v
Collides(l, v) == \E x \in Range(l) : x # v /\ Hash(x) = Hash(v)

\* C12 as stated: for any persistent set p and any element v,
\* p.add(v).discard(v).contains(v) == p.contains(v).
C12_AddDiscardAsStated ==
    mode = "set" =>
        \A v \in univ :
            LET r == pset_add(heap, p, v)
                d == pset_discard(r.heap, r.id, v)
            IN /\ r.exc = "" /\ d.exc = ""
               /\ set_contains(d.heap[d.id], v) = set_contains(heap[p], v)

\* C12 as amended: p.add(v).discard(v) never contains v and keeps every other
\* element of p, so its answer for v equals p.contains(v) exactly when v was
\* not in p; p.add(v) gives no set to discard from only when v is absent and
\* has the hash of an element of p (C11).
C12_AddThenDiscard ==
    mode = "set" =>
        \A v \in univ :
            LET r == pset_add(heap, p, v)
                d == pset_discard(r.heap, r.id, v)
                q == d.heap[d.id]
            IN IF r.exc # "" THEN v \notin Range(pref) /\ Collides(pref, v)
               ELSE /\ d.exc = ""
                    /\ ~set_contains(q, v)
                    /\ \A x \in univ \ {v} : set_contains(q, x) = (x \in Range(pref))
                    /\ (set_contains(q, v) = set_contains(heap[p], v))
                           <=> v \notin Range(pref)

\* p holds two elements with one hash, built by a transient; adding the second
\* of the chain returns p and discarding it leaves the first
C12_Witness ==
    /\ mode = "set"
    /\ Len(pref) = 2 /\ Collides(pref, pref[2])
    /\ LET r == pset_add(heap, p, pref[2])
           d == pset_discard(r.heap, r.id, pref[2])
       IN r.id = p /\ d.id # p /\ set_iter(d.heap[d.id].els) = <<pref[1]>>

\* C13: for any persistent mapping p, any key k and any value v, also a key
\* whose hash equals the hash of a different key of p, p.set(k, v) returns a
\* mapping q with q.get(k) == v in which every other key of p keeps its value,
\* and len(q) is len(p) + 1 exactly when k was absent (len(p) otherwise).
C13_SetPostcondition ==
    mode = "dict" =>
        \A k \in univ, v \in Vals :
            LET r == pdict_set(heap, p, k, v)
                q == r.heap[r.id]
            IN /\ r.exc = ""
               /\ dict_getitem(q, k) = [exc |-> "", val |-> v]
               /\ \A j \in univ \ {k} : dict_getitem(q, j) = dict_getitem(heap[p], j)
               /\ HLen(q.els) = HLen(heap[p].els) + (IF k \in Keys(pref) THEN 0 ELSE 1)

\* == of two mappings: the same keys with the same values, in any order
dict_eq(a, b) == ItemSet(dict_items(a.els)) = ItemSet(dict_items(b.els))

\* C14: for any persistent mapping p, key k and value v, p.set(k, v).drop(k)
\* is a mapping, and it equals p (as a mapping) if and only if k was not a key
\* of p.
C14_SetThenDrop ==
    mode = "dict" =>
        \A k \in univ, v \in Vals :
            LET r == pdict_set(heap, p, k, v)
                d == pdict_drop(r.heap, r.id, k)
            IN /\ r.exc = "" /\ d.exc = ""
               /\ dict_eq(d.heap[d.id], heap[p]) <=> k \notin Keys(pref)

\* C15: a no-op edit returns the same object.  For any persistent list p and
\* valid index i (negative ones too), p.set(i, p[i]) is the object p; for any
\* persistent mapping p and present key k, p.set(k, p[k]) is the object p.
C15_NoOpEdit ==
    /\ mode = "list" =>
        \A i \in (-Len(pref))..(Len(pref) - 1) :
            LET g == plist_getitem(heap[p], i)
                r == plist_set(heap, p, i, g.val)
            IN g.exc = "" /\ r.exc = "" /\ r.id = p
    /\ mode = "dict" =>
        \A k \in Keys(pref) :
            LET g == dict_getitem(heap[p], k)
                r == pdict_set(heap, p, k, g.val)
            IN g.exc = "" /\ r.exc = "" /\ r.id = p

\* the slices tried: each endpoint omitted or an integer, the step omitted or
\* not 0
SliceEnds == {<<>>} \cup {<<i>> : i \in (-MaxSlice)..MaxSlice}
Slices == [start : SliceEnds, stop : SliceEnds, step : {<<>>, <<1>>, <<2>>, <<-1>>, <<-2>>}]

\* C16: slicing.  For a plist / tlist of length n and every slice (start,
\* stop, step) with step # 0, each endpoint omitted or any integer (0,
\* negative and out of range included), the slice is a new list with origin 0
\* whose elements are those the conventional slice rules select, in that order.
C16_Slicing ==
    mode = "list" =>
        \A k \in Slices :
            LET rp == plist_getslice(heap, p, k)
                rt == tlist_getslice(t, k)
            IN /\ rp.exc = "" /\ rt.exc = ""
               /\ rp.id \notin DOMAIN heap
               /\ rp.heap[rp.id].start = 0 /\ rt.t.start = 0
               /\ plist_iter(rp.heap[rp.id]) = RefSlice(pref, k)
               /\ tlist_iter(rt.t) = RefSlice(ref, k)

\* C17: list index errors.  On a list of length n, get(i), set(i, v) and
\* delete(i) with -n <= i < 0 act on index i + n (the lists stay equal to the
\* reference edited at i + n, and get returns its element), and with i < -n or
\* i >= n they raise IndexError and leave the list as it was; drop(i) with
\* such an i raises nothing and returns the list itself.
C17_ListIndexErrors ==
    mode = "list" =>
        /\ plist_iter(heap[p]) = pref /\ tlist_iter(t) = ref
        /\ last.op \in {"get", "set", "delete", "drop"} => last.agree
        /\ last.pexc \in {"", "IndexError"} /\ last.texc \in {"", "IndexError"}
        /\ last.op = "drop" => last.pexc = ""

\* delete with an index out of range raised IndexError on a list of three whose
\* origin had moved
C17_Witness ==
    /\ mode = "list"
    /\ last.op = "delete" /\ last.pexc = "IndexError" /\ last.texc = "IndexError"
    /\ Len(pref) = 3
    /\ heap[p].start # 0

\* C18 as stated: insertion into a list of length n at an index outside
\* [-n, n] fails with IndexError and leaves the list unchanged, for plist.insert
\* and tlist.insert.
C18_InsertOutOfRangeFails ==
    mode = "list" /\ last.op \in {"insert above", "insert below"} =>
        last.pexc = "IndexError" /\ last.texc = "IndexError" /\ last.same

\* C18 as amended: insertion at an index outside [-n, n] does not fail; as
\* list.insert does, plist.insert and tlist.insert take an index above n as n
\* (the element is appended) and an index below -n as -n (it is prepended),
\* plist.insert returning a new list.
C18_InsertClamps ==
    mode = "list" =>
        /\ last.op \in {"insert", "insert above", "insert below"} =>
               last.pexc = "" /\ last.texc = "" /\ ~last.same
        /\ plist_iter(heap[p]) = pref /\ tlist_iter(t) = ref
        /\ HLen(heap[p].phamt) = Len(pref) /\ HLen(t.thamt) = Len(ref)

\* an element was inserted at an index below -n and stands first of three
C18_Witness ==
    /\ mode = "list"
    /\ last.op = "insert below"
    /\ Len(pref) = 3 /\ pref[1] # pref[2]
    /\ plist_iter(heap[p]) = pref
    /\ heap[p].start < 0

\* C19: missing-key outcomes.  For an element v that is not in the set,
\* discard(v) returns the persistent set itself and leaves a transient set as
\* it was, while remove(v) raises KeyError; for a key k that is not in the
\* mapping, drop(k) returns the persistent mapping itself, delete(k), del t[k]
\* and pop(k) raise KeyError, and pop(k, d) returns d; in every failing case
\* the container is as it was.
C19_MissingKey ==
    /\ mode = "set" =>
        /\ \A v \in univ \ Range(pref) :
            /\ pset_discard(heap, p, v) = Ok(heap, p)
            /\ pset_remove(heap, p, v) = Raise(heap, p, "KeyError")
        /\ \A v \in univ \ Range(ref) :
            /\ tset_discard(t, v) = TOk(t)
            /\ tset_remove(t, v) = TRaise(t, "KeyError")
        /\ last.op = "remove" => last.agree
    /\ mode = "dict" =>
        /\ \A k \in univ \ Keys(pref) :
            /\ pdict_drop(heap, p, k) = Ok(heap, p)
            /\ pdict_delete(heap, p, k) = Raise(heap, p, "KeyError")
            /\ pdict_pop(heap, p, k) = Raise(heap, p, "KeyError")
            /\ pdict_pop_default(heap, p, k, 0) = Ok(heap, p)
        /\ \A k \in univ \ Keys(ref) :
            /\ tdict_delitem(t, k) = TRaise(t, "KeyError")
            /\ tdict_pop(t, k) = TRaise(t, "KeyError")
            /\ tdict_pop_default(t, k, 0) = TOk(t)
        /\ last.op = "pop default" => last.agree

\* pop(-1, 0) returned the mapping itself: -1 was the one key missing, and its
\* hash is the hash of the key -2 that is there
C19_Witness ==
    /\ mode = "dict"
    /\ last.op = "pop default" /\ last.same
    /\ Keys(pref) = {-2, 0} /\ Keys(ref) = {-2, 0}
    /\ Hash(-1) \in DOMAIN heap[p].idx

\* p.delete(i) was applied to p = the list of 0..9 the caller keeps
DeletedFromTen(i) ==
    scen = "ten" /\ last.op = "delete" /\ last.pexc = "" /\ pref = RefDelete(Ten, i)

\* C20 as stated: for p = the persistent list of 0..9, q = p.delete(2) equals
\* [0,1,3,4,5,6,7,8,9] with q.start == p.start, and r = p.delete(7) equals
\* [0,1,2,3,4,5,6,8,9] with r.start == p.start + 1.
C20_ReindexAsStated ==
    /\ DeletedFromTen(2) =>
        plist_iter(heap[p]) = <<0, 1, 3, 4, 5, 6, 7, 8, 9>>
            /\ heap[p].start = heap[held[1].id].start
    /\ DeletedFromTen(7) =>
        plist_iter(heap[p]) = <<0, 1, 2, 3, 4, 5, 6, 8, 9>>
            /\ heap[p].start = heap[held[1].id].start + 1

\* C20 as amended: q = p.delete(2) equals [0,1,3,4,5,6,7,8,9] with
\* q.start == p.start + 1 (2 is nearer the front: the two elements before it
\* move up and the origin with them), and r = p.delete(7) equals
\* [0,1,2,3,4,5,6,8,9] with r.start == p.start (the two elements after it move
\* down).
C20_Reindex ==
    /\ DeletedFromTen(2) =>
        plist_iter(heap[p]) = <<0, 1, 3, 4, 5, 6, 7, 8, 9>>
            /\ heap[p].start = heap[held[1].id].start + 1
    /\ DeletedFromTen(7) =>
        plist_iter(heap[p]) = <<0, 1, 2, 3, 4, 5, 6, 8, 9>>
            /\ heap[p].start = heap[held[1].id].start

\* delete(2) of the list of 0..9 whose origin was 0 returned a list of origin 1
C20_Witness ==
    /\ DeletedFromTen(2)
    /\ plist_iter(heap[held[1].id]) = Ten
    /\ heap[held[1].id].start = 0
    /\ heap[p].start = 1

\* the elements of a pset / tset
Members(o) == {o.els[i].x : i \in DOMAIN o.els}

\* C21: isdisjoint(a, b) on persistent and transient sets is true exactly when
\* a and b have no common element, for all pairs of sets, also pairs where one
\* or both are empty.  The pairs are a set the caller kept, the current pset
\* and the current tset, in both orders.
C21_IsDisjoint ==
    mode = "set" /\ held # <<>> =>
        LET a == heap[held[1].id]
            b == heap[p]
        IN /\ set_isdisjoint(a, b) = (Members(a) \cap Members(b) = {})
           /\ set_isdisjoint(b, a) = (Members(a) \cap Members(b) = {})
           /\ set_isdisjoint(a, t) = (Members(a) \cap Members(t) = {})
           /\ set_isdisjoint(t, a) = (Members(a) \cap Members(t) = {})

\* C22: there is one empty value of each persistent type: plist of an empty
\* iterable is plist.empty, pset of an empty iterable is pset.empty, and
\* pdict({}) / ldict({}) is pdict.empty / ldict.empty, the same object.
C22_CanonicalEmpty ==
    /\ mode = "list" => plist_construct(heap, <<>>).id = EmptyId
    /\ mode = "set" => pset_construct(heap, <<>>).id = EmptyId
    /\ mode = "dict" => pdict_construct(heap, <<>>).id = EmptyId

\* C23: for a lazy list p holding pending cells and t = p.transient(), reading
\* t[k] returns the lazy cell itself and evaluates no cell, and the lazy list
\* rebuilt from t has the cells of p, each evaluated at most once whichever of
\* the lists is read.
C23_TransientReadsKeepCells ==
    mode = "llist" =>
        \A k \in 0..(HLen(ll.phamt) - 1) :
            LET u == ll.phamt[k + ll.start]
                tl == llist_transient(ll)
                r == tllist_getitem(tl, cells, count, k)
                p2 == llist_of_transient(tl)
                r2 == llist_getitem(p2, r.cells, r.count, k)
                r1 == llist_getitem(ll, r2.cells, r2.count, k)
            IN /\ WasPending(u) => r.ret = u /\ r.cells = cells /\ r.count = count
               /\ p2.phamt = ll.phamt
               /\ \A c \in DOMAIN cells : r1.cells[c].calls <= 1

\* C24: for a lazy mapping p, t = p.transient() equals p and t.persistent() is
\* the object p; after a new key is set on t, t.persistent() returns a lazy
\* mapping equal to t.
C24_LazyMappingRoundTrip ==
    mode = "dict" =>
        LET tl == ldict_transient(heap, p)
            r == tldict_persistent(heap, tl)
        IN /\ dict_eq(tl, heap[p])
           /\ r.exc = "" /\ r.id = p
           /\ \A k \in univ \ Keys(pref), v \in Vals :
                LET t2 == tdict_setitem(tl, k, v).t
                    r2 == tldict_persistent(heap, t2)
                IN r2.exc = "" /\ dict_eq(r2.heap[r2.id], t2)

\* C25: pop(k) on a lazy transient mapping returns: for a present key the key
\* is removed and its value returned, for an absent key KeyError is raised
\* and the mapping is as it was.
C25_LazyTransientPop ==
    mode = "dict" =>
        \A k \in univ :
            LET r == tldict_pop(t, k)
            IN IF k \in Keys(ref)
               THEN /\ r.exc = "" /\ r.val = RefGet(ref, k)
                    /\ dict_items(r.t.els) = RefDrop(ref, k)
               ELSE r = TRaise(t, "KeyError")

\* C26: after ready_all() on a lazy list or a lazy mapping every lazy cell of
\* it is ready, the thunk of each cell that was pending has been invoked
\* exactly once (and no other), and the call returns the same container.
C26_ReadyAll ==
    mode = "llist" =>
        LET d == ldict_new(plist_iter(ll))
            rl == llist_ready_all(ll, cells, count)
            rd2 == ldict_ready_all(d, cells, count)
        IN /\ rl.ret = ll /\ rd2.ret = d
           /\ \A c \in DOMAIN cells :
                IF Cell(c) \in Range(plist_iter(ll))
                THEN /\ ~rl.cells[c].pending /\ rl.cells[c].calls = 1
                     /\ ~rd2.cells[c].pending /\ rd2.cells[c].calls = 1
                ELSE rl.cells[c] = cells[c] /\ rd2.cells[c] = cells[c]

\* the keys of the store m are st .. st + len - 1, and st is 0 when m is empty
ListSlots(m, st) ==
    /\ DOMAIN m = st..(st + HLen(m) - 1)
    /\ HLen(m) = 0 => st = 0

\* C27: in every plist and tlist reached by inserts, deletes, sets and the
\* transient / persistent conversions the keys of the store are exactly
\* start .. start + len - 1, and start is 0 whenever the list is empty.
C27_ListSlots ==
    mode = "list" =>
        /\ \A id \in DOMAIN heap : ListSlots(heap[id].phamt, heap[id].start)
        /\ ListSlots(t.thamt, t.start)

\* the slots that following next_slot from slot ii visits, n steps at most
RECURSIVE Chain(_, _, _)
Chain(els, ii, n) ==
    IF ii = NoSlot \/ n = 0 THEN <<>>
    ELSE IF ii \notin DOMAIN els THEN <<ii>>
    ELSE <<ii>> \o Chain(els, els[ii].nxt, n - 1)

\* the chains of a pset / tset: idx has the hashes of the elements, and the
\* chain of each hash visits the slots of the elements with that hash, once each
ChainsOk(o) ==
    /\ DOMAIN o.idx = {Hash(o.els[s].x) : s \in DOMAIN o.els}
    /\ \A s1 \in DOMAIN o.els, s2 \in DOMAIN o.els : o.els[s1].x = o.els[s2].x => s1 = s2
    /\ \A h \in DOMAIN o.idx :
        LET c == Chain(o.els, o.idx[h], HLen(o.els) + 1)
        IN /\ Range(c) = {s \in DOMAIN o.els : Hash(o.els[s].x) = h}
           /\ Len(c) = Cardinality(Range(c))

\* o holds a, b, c in this order, and q is o without b: q yields a, c, the
\* index still has the slot of a, and the chain is a -> c
MiddleGone(o, q, a, b, c) ==
    set_iter(o.els) = <<a, b, c>> =>
        /\ set_iter(q.els) = <<a, c>>
        /\ q.idx[Hash(a)] = o.idx[Hash(a)]
        /\ LET ch == Chain(q.els, q.idx[Hash(a)], HLen(q.els) + 1)
           IN Len(ch) = 2 /\ q.els[ch[1]].x = a /\ q.els[ch[2]].x = c

C29_BackReference ==
    /\ mode = "list" =>
        /\ t.orig # NoneId => t.thamt = heap[t.orig].phamt /\ t.start = heap[t.orig].start
        /\ \A v \in Vals, i \in Idx(Len(ref)) :
            /\ tlist_append(t, v).t.orig = NoneId
            /\ tlist_prepend(t, v).t.orig = NoneId
            /\ tlist_insert(t, i, v).t.orig = NoneId
            /\ InIdx(i, Len(ref)) =>
                tlist_delitem(t, i).t.orig = NoneId /\ tlist_pop(t, i).t.orig = NoneId
        /\ tlist_clear(t).orig = NoneId
    /\ mode = "set" =>
        /\ t.orig # NoneId => t.els = heap[t.orig].els /\ t.idx = heap[t.orig].idx
        /\ \A v \in univ :
            IF v \in Range(ref)
            THEN tset_discard(t, v).t.orig = NoneId /\ tset_remove(t, v).t.orig = NoneId
            ELSE tset_add(t, v).t.orig = NoneId
        /\ tset_clear(t).orig = NoneId
    /\ mode = "dict" =>
        /\ t.orig # NoneId => t.els = heap[t.orig].els /\ t.idx = heap[t.orig].idx
        /\ \A k \in univ :
            IF k \in Keys(ref)
            THEN tdict_delitem(t, k).t.orig = NoneId /\ tdict_pop(t, k).t.orig = NoneId
            ELSE \A v \in Vals : tdict_setitem(t, k, v).t.orig = NoneId
        /\ tdict_clear(t).orig = NoneId

\* the failed calls of the thunk so far
RECURSIVE SumFails(_)
SumFails(ths) ==
    IF ths = {} THEN 0
    ELSE LET th == CHOOSE x \in ths : TRUE IN thr[th].fails + SumFails(ths \ {th})

\* C30: when the thunk raises during an invocation of a pending cell, the
\* invocation fails with the LazyError made when the cell was constructed,
\* the cell stays pending (no value published, thunk kept), the lock is
\* released, and a later invocation calls the thunk again: every failed
\* invocation made one call of the thunk, and one more call succeeded once
\* the cell is ready.
C30_LazyFailure ==
    mode = "lazy" =>
        LET c == cells[TheCell]
            InLock == {"l93", "l94", "l96", "l99", "l100", "l101", "l105", "l107"}
            succeeded == IF count = 0 THEN 0 ELSE 1
        IN /\ \A th \in DOMAIN thr :
                /\ thr[th].pc = "idle" =>
                    /\ thr[th].exc = (IF thr[th].threw THEN "init_error" ELSE "")
                    /\ thr[th].n > 0 /\ ~thr[th].threw => thr[th].ret = c.inc /\ ~c.pending
                /\ thr[th].pc \in {"l105", "l107"} =>
                    thr[th].threw /\ c.pending /\ c.value = 0 /\ lock[TheCell].owner = th
                /\ thr[th].pc \in InLock <=> lock[TheCell].owner = th
           /\ c.pending /\ c.value # 0 => \E th \in DOMAIN thr : thr[th].pc = "l100"
           /\ c.calls = SumFails(DOMAIN thr) + succeeded
           /\ count \in {0, c.inc}
           /\ ~c.pending => count = c.inc /\ c.value = c.inc

\* one thread's invocation failed with the error made at construction, the
\* lock is free again, and the other thread's later invocation called the
\* thunk again and made the cell ready
C30_Witness ==
    /\ mode = "lazy"
    /\ thr[1].pc = "idle" /\ thr[1].n = 1 /\ thr[1].exc = "init_error"
    /\ thr[2].pc = "idle" /\ thr[2].n = 1 /\ thr[2].exc = "" /\ thr[2].ret = cells[TheCell].inc
    /\ cells[TheCell].calls = 2 /\ ~cells[TheCell].pending
    /\ lock[TheCell].owner = 0

\* C31: a thread that sees the cell ready without holding the lock (partial
\* is None at line 84) returns the value the evaluating thread computed,
\* never the placeholder the cell started with, wherever the evaluating
\* thread is: the value is stored before the flag is set.
C31_FastPathValue ==
    mode = "lazy" =>
        \A th \in DOMAIN thr :
            /\ thr[th].pc = "l86" =>
                /\ thr[th].part = "none"
                /\ cells[TheCell].value = count /\ cells[TheCell].value # 0
            /\ thr[th].pc = "idle" /\ thr[th].n > 0 /\ thr[th].part = "none" =>
                thr[th].ret = count /\ thr[th].ret # 0

\* thread 2 took the fast path and has returned the value while thread 1,
\* which computed it, has not yet released the lock
C31_Witness ==
    /\ mode = "lazy"
    /\ thr[1].pc = "l101" /\ thr[1].part = "tuple" /\ lock[TheCell].owner = 1
    /\ thr[2].pc = "idle" /\ thr[2].n = 1 /\ thr[2].part = "none"
    /\ thr[2].ret = cells[TheCell].inc

\* C32: with threads invoking one cell whose thunk returns or raises, and
\* every thread scheduled fairly, each invocation eventually returns or
\* raises (the thread is idle again), and then the lock is not left with it:
\* no caller waits for ever after another caller's success or failure.
C32_LazyLiveness ==
    \A th \in 1..NumThreads :
        (thr[th].pc # "idle") ~> (thr[th].pc = "idle" /\ lock[TheCell].owner # th)

\* a thread waits for the lock that the other holds after the thunk raised
C32_Witness ==
    /\ mode = "lazy"
    /\ thr[1].pc = "l107" /\ lock[TheCell].owner = 1
    /\ thr[2].pc = "l91"

C34_ClearTrapsIterator ==
    mode = "dict" /\ IterCleared => it.out # "yield" /\ it.v0 <= t.version

\* the slots lo..hi of the store m2 are those of m
SameSlots(m, m2, lo, hi) == \A k \in lo..hi : k \in DOMAIN m2 /\ m2[k] = m[k]

\* what insert(i, v) made, as store m2 and origin st2, of a list of n elements
\* with store m and origin st
InsertShifts(m, st, n, i, v, m2, st2) ==
    /\ list_iter(m2, st2) = RefInsert(list_iter(m, st), i, v)
    /\ IF n - i <= i
       THEN st2 = st /\ SameSlots(m, m2, st, st + i - 1)
       ELSE st2 = st - 1 /\ SameSlots(m, m2, st + i, st + n - 1)

\* what delete(i) made of it
DeleteShifts(m, st, n, i, m2, st2) ==
    /\ list_iter(m2, st2) = RefDelete(list_iter(m, st), i)
    /\ IF n - i <= i
       THEN st2 = st /\ SameSlots(m, m2, st, st + i - 1)
       ELSE st2 = st + 1 /\ SameSlots(m, m2, st + i + 1, st + n - 1)

\* C35: shorter-side shift.  For an index i inside a plist or tlist of n
\* elements, insert(i, v) and delete(i) produce the order of the reference
\* list; when n - i <= i the origin is unchanged and the slots below i are as
\* they were, otherwise the origin moves by one (down for insert, up for
\* delete) and the slots above i (from i on, for insert) are as they were.
C35_ShorterSideShift ==
    mode = "list" =>
        LET o == heap[p]
            n == HLen(o.phamt)
            nt == HLen(t.thamt)
        IN /\ \A i \in 1..(n - 1), v \in univ :
                LET r == plist_insert(heap, p, i, v)
                IN r.exc = "" /\ InsertShifts(o.phamt, o.start, n, i, v,
                                              r.heap[r.id].phamt, r.heap[r.id].start)
           /\ \A i \in 1..(n - 2) :
                LET r == plist_delete(heap, p, i)
                IN r.exc = "" /\ DeleteShifts(o.phamt, o.start, n, i,
                                              r.heap[r.id].phamt, r.heap[r.id].start)
           /\ \A i \in 1..(nt - 1), v \in univ :
                LET r == tlist_insert(t, i, v)
                IN r.exc = "" /\ InsertShifts(t.thamt, t.start, nt, i, v,
                                              r.t.thamt, r.t.start)
           /\ \A i \in 1..(nt - 2) :
                LET r == tlist_delitem(t, i)
                IN r.exc = "" /\ DeleteShifts(t.thamt, t.start, nt, i,
                                              r.t.thamt, r.t.start)

\* an insert has moved the origin of both lists below 0, and the lists, of
\* three elements, have an inner index on which delete shifts the lower side
\* and insert the upper one
C35_Witness ==
    /\ mode = "list" /\ last.op = "insert"
    /\ Len(ref) = 3 /\ Len(pref) = 3
    /\ t.start = -1 /\ heap[p].start = -1
    /\ ref[2] # ref[1] /\ ref[2] # ref[3]
    /\ tlist_delitem(t, 1).t.start = 0
    /\ tlist_insert(t, 2, 1).t.start = -1

\* every next_slot of the entries is null or a present slot above the entry's own
NextSlotsOk(els) ==
    \A s \in DOMAIN els :
        els[s].nxt = NoSlot \/ (els[s].nxt \in DOMAIN els /\ els[s].nxt > s)

\* C36: chain walks terminate.  In every reachable pset, tset, pdict and tdict
\* each next_slot is null or a present slot greater than the entry's own, so
\* the chains have no cycle; and add / set, discard / drop and pop return (or
\* raise) for every key, also a key that is absent and has the hash of a key
\* that is present.
C36_ChainWalks ==
    /\ mode = "set" =>
        /\ NextSlotsOk(heap[p].els) /\ NextSlotsOk(t.els)
        /\ \A v \in univ :
            /\ pset_add(heap, p, v).exc # "NoReturn"
            /\ pset_discard(heap, p, v).exc # "NoReturn"
            /\ tset_add(t, v).exc # "NoReturn"
            /\ tset_discard(t, v).exc # "NoReturn"
    /\ mode = "dict" =>
        /\ NextSlotsOk(heap[p].els) /\ NextSlotsOk(t.els)
        /\ \A k \in univ :
            /\ \A v \in Vals : pdict_set(heap, p, k, v).exc # "NoReturn"
            /\ \A v \in Vals : tdict_setitem(t, k, v).exc # "NoReturn"
            /\ pdict_drop(heap, p, k).exc # "NoReturn"
            /\ pdict_pop(heap, p, k).exc # "NoReturn"
            /\ tdict_delitem(t, k).exc # "NoReturn"
            /\ tdict_pop(t, k).exc # "NoReturn"

\* the list o, read at each index, gives a value and never a cell, and the
\* value of a cell is the one the cell computes
ReadsReified(o) ==
    \A k \in 0..(HLen(o.phamt) - 1) :
        LET r == made_getitem(o, cells, count, k)
        IN r.exc = "" /\ ~IsLazy(r.ret) /\ o.cls = "llist"

\* C37: lazy type is preserved by edits.  set, append, prepend and delete (which
\* drop and pop call) at any index of a lazy list, the first and the last
\* included, return a lazy list, whose slots read as values and not as cells;
\* deleting the only element returns the empty lazy list, and no edit invokes
\* a thunk.
C37_LazyEdits ==
    mode = "llist" =>
        LET n == HLen(ll.phamt)
        IN /\ \A k \in 0..(n - 1) :
                LET r == llist_delete(ll, k)
                IN /\ r.exc = "" /\ r.cls = "llist" /\ ReadsReified(r)
                   /\ n = 1 => r.canon
           /\ \A k \in 0..(n - 1), u \in {Plain(7), Cell(1)} :
                ReadsReified(llist_set(ll, k, u))
           /\ \A u \in {Plain(7), Cell(1)} :
                ReadsReified(llist_append(ll, u)) /\ ReadsReified(llist_prepend(ll, u))

\* None, as the default of get
NoneVal == 0

\* C38: tdict.get(k, d) returns the value stored under k when k is present and
\* d (None when omitted) when k is absent; it raises nothing and leaves the
\* tdict, its version and its orig as they were.
C38_TdictGet ==
    mode = "dict" =>
        \A k \in univ, d \in Vals \cup {NoneVal} :
            LET r == tdict_get(t, k, d)
            IN /\ r.exc = ""
               /\ r.val = (IF k \in Keys(ref) THEN RefGet(ref, k) ELSE d)
               /\ r.t = t

\* C39: in-place reverse.  reverse() of a tlist of any length n raises nothing
\* and leaves the list with n elements, the element at k being the former
\* element at n - 1 - k.
C39_Reverse ==
    mode = "list" =>
        LET r == tlist_reverse(t)
            n == Len(ref)
        IN /\ r.exc = ""
           /\ tlist_iter(r.t) = [k \in 1..n |-> ref[n + 1 - k]]

\* every occupied slot of o is below top
BelowTop(o) == \A s \in DOMAIN o.els : 0 <= s /\ s < o.top

\* o2 is o after an edit that was to put in something new (grows) or not:
\* the new entry is in the slot that was top and top is one more, or top is
\* as it was
TopAfter(o, o2, grows) ==
    /\ BelowTop(o2)
    /\ IF grows
       THEN o2.top = o.top + 1 /\ DOMAIN o2.els = DOMAIN o.els \cup {o.top}
       ELSE o2.top = o.top

\* C40: free-slot invariant.  In every reachable pset, tset, pdict and tdict
\* every occupied slot is in 0..top-1; an edit that inserts a new element (key)
\* fills the slot top and adds one to top, a removal or an overwrite of a value
\* leaves top as it was, also when it empties the collection, and clear() sets
\* top to 0 and empties the contents.
C40_FreeSlot ==
    /\ mode = "set" =>
        /\ BelowTop(heap[p]) /\ BelowTop(t)
        /\ \A v \in univ :
            LET ra == pset_add(heap, p, v)
                rd1 == pset_discard(heap, p, v)
            IN /\ ra.exc = "" => TopAfter(heap[p], ra.heap[ra.id], ~set_contains(heap[p], v))
               /\ TopAfter(heap[p], rd1.heap[rd1.id], FALSE)
               /\ TopAfter(t, tset_add(t, v).t, ~set_contains(t, v))
               /\ TopAfter(t, tset_discard(t, v).t, FALSE)
        /\ tset_clear(t).top = 0 /\ HLen(tset_clear(t).els) = 0
    /\ mode = "dict" =>
        /\ BelowTop(heap[p]) /\ BelowTop(t)
        /\ \A k \in univ :
            LET rd1 == pdict_drop(heap, p, k)
                rp == pdict_pop(heap, p, k)
            IN /\ \A v \in Vals :
                    LET rs == pdict_set(heap, p, k, v)
                    IN /\ rs.exc = "" =>
                            TopAfter(heap[p], rs.heap[rs.id], ~dict_contains(heap[p], k))
                       /\ TopAfter(t, tdict_setitem(t, k, v).t, ~dict_contains(t, k))
               /\ TopAfter(heap[p], rd1.heap[rd1.id], FALSE)
               /\ TopAfter(heap[p], rp.heap[rp.id], FALSE)
               /\ TopAfter(t, tdict_delitem(t, k).t, FALSE)
               /\ TopAfter(t, tdict_pop(t, k).t, FALSE)
        /\ tdict_clear(t).top = 0 /\ HLen(tdict_clear(t).els) = 0

\* three elements were added to the tset and two of them discarded: the one
\* left is in slot 2, top is still 3, and adding -1 fills slot 3
C40_Witness ==
    /\ mode = "set"
    /\ t.top = 3 /\ DOMAIN t.els = {2}
    /\ last.texc = ""
    /\ TopAfter(t, tset_add(t, -1).t, TRUE)
    /\ tset_add(t, -1).t.els[3].x = -1

====
